---- MODULE Spec2Model ----
(***************************************************************************)
(* Model of the Compass CX orchestrator (src/main.py): the per-session     *)
(* demo state, the NLP helpers, the intent router, the policy gate and the *)
(* two endpoints /orchestrate and /action.                                 *)
(*                                                                         *)
(* Money is held by the program in Python floats (IEEE-754 binary64).      *)
(* The model keeps that arithmetic: a float is a sign and an exact         *)
(* magnitude, a natural number of units of 2^-48 written as four 16-bit    *)
(* limbs (least significant first), and every addition rounds its exact    *)
(* result to 53 significant bits, ties to even, as the hardware does.      *)
(***************************************************************************)
EXTENDS Integers, Sequences, FiniteSets, TLC

(***************************************************************************)
(* Python float                                                            *)
(***************************************************************************)
Base == 2^16

Half(p) == p \div 2

RECURSIVE BitLen(_)
BitLen(n) == IF n = 0 THEN 0 ELSE 1 + BitLen(n \div 2)

MagZero == <<0, 0, 0, 0>>

\* Number of significant bits of a magnitude.
MagBits(m) ==
    IF m[4] # 0 THEN 48 + BitLen(m[4])
    ELSE IF m[3] # 0 THEN 32 + BitLen(m[3])
    ELSE IF m[2] # 0 THEN 16 + BitLen(m[2])
    ELSE BitLen(m[1])

\* -1, 0, 1 as a < b, a = b, a > b.
MagCmp(a, b) ==
    IF a[4] # b[4] THEN (IF a[4] < b[4] THEN -1 ELSE 1)
    ELSE IF a[3] # b[3] THEN (IF a[3] < b[3] THEN -1 ELSE 1)
    ELSE IF a[2] # b[2] THEN (IF a[2] < b[2] THEN -1 ELSE 1)
    ELSE IF a[1] # b[1] THEN (IF a[1] < b[1] THEN -1 ELSE 1)
    ELSE 0

\* Exact sum of two magnitudes.
MagAdd(a, b) ==
    LET s1 == a[1] + b[1]
        s2 == a[2] + b[2] + (s1 \div Base)
        s3 == a[3] + b[3] + (s2 \div Base)
        s4 == a[4] + b[4] + (s3 \div Base)
    IN  <<s1 % Base, s2 % Base, s3 % Base, s4 % Base>>

\* Exact difference a - b of two magnitudes, a >= b.
MagSub(a, b) ==
    LET d1 == a[1] - b[1]
        b1 == IF d1 < 0 THEN 1 ELSE 0
        d2 == a[2] - b[2] - b1
        b2 == IF d2 < 0 THEN 1 ELSE 0
        d3 == a[3] - b[3] - b2
        b3 == IF d3 < 0 THEN 1 ELSE 0
        d4 == a[4] - b[4] - b3
    IN  <<d1 + b1 * Base, d2 + b2 * Base, d3 + b3 * Base, d4>>

\* Round an exact magnitude to 53 significant bits, ties to even.
RoundMag(m) ==
    LET n == MagBits(m)
    IN  IF n <= 53 THEN m
        ELSE LET p     == 2^(n - 53)
                 low   == m[1] % p
                 trunc == [m EXCEPT ![1] = m[1] - low]
                 up    == \/ low > Half(p)
                          \/ low = Half(p) /\ (m[1] \div p) % 2 = 1
             IN  IF up THEN MagAdd(trunc, <<p, 0, 0, 0>>) ELSE trunc

Float(neg, mag) == [neg |-> neg /\ mag # MagZero, mag |-> mag]

FZero == Float(FALSE, MagZero)

FNeg(x) == Float(~x.neg, x.mag)

\* The exact sum of two floats, before rounding.
ExactAdd(x, y) ==
    IF x.neg = y.neg THEN Float(x.neg, MagAdd(x.mag, y.mag))
    ELSE IF MagCmp(x.mag, y.mag) >= 0
         THEN Float(x.neg, MagSub(x.mag, y.mag))
         ELSE Float(y.neg, MagSub(y.mag, x.mag))

\* x + y of two floats.
FAdd(x, y) == LET e == ExactAdd(x, y) IN Float(e.neg, RoundMag(e.mag))

\* x - y of two floats.
FSub(x, y) == FAdd(x, FNeg(y))

\* x < y of two floats.
FLt(x, y) ==
    IF x.neg # y.neg THEN x.neg
    ELSE IF x.neg THEN MagCmp(x.mag, y.mag) > 0
    ELSE MagCmp(x.mag, y.mag) < 0

FGt(x, y) == FLt(y, x)

FLe(x, y) == ~FLt(y, x)

FGe(x, y) == ~FLt(x, y)

\* f"{x:.2f}": the decimal shown for a non-negative float, in cents (the exact
\* value times 100, rounded to the nearest integer, ties to even).
Fmt2(x) ==
    LET s1 == x.mag[1] * 100
        s2 == x.mag[2] * 100 + (s1 \div Base)
        s3 == x.mag[3] * 100 + (s2 \div Base)
        s4 == x.mag[4] * 100 + (s3 \div Base)
        frac == <<s1 % Base, s2 % Base, s3 % Base, 0>>
        half == <<0, 0, Half(Base), 0>>
        up   == \/ MagCmp(frac, half) > 0
                \/ MagCmp(frac, half) = 0 /\ s4 % 2 = 1
    IN  IF up THEN s4 + 1 ELSE s4

(***************************************************************************)
(* Python None: the absent dict / absent float, and the absent string.     *)
(***************************************************************************)
None == <<>>

NoneStr == "None"

(***************************************************************************)
(* NLP helpers.  A text is the sequence of its lower-cased words, separated *)
(* by single blanks.                                                        *)
(***************************************************************************)
\* float(raw) of the amount literals the requests use: the binary64 nearest
\* to the decimal, "$" and "," stripped.
AmountLiterals ==
    [w \in {"$0", "$25", "$148.63", "$2000", "$3000", "$5,000", "$6000"} |->
        CASE w = "$0"      -> Float(FALSE, <<0, 0, 0, 0>>)
          [] w = "$25"     -> Float(FALSE, <<0, 0, 0, 25>>)
          [] w = "$148.63" -> Float(FALSE, <<31456, 44564, 41287, 148>>)
          [] w = "$2000"   -> Float(FALSE, <<0, 0, 0, 2000>>)
          [] w = "$3000"   -> Float(FALSE, <<0, 0, 0, 3000>>)
          [] w = "$5,000"  -> Float(FALSE, <<0, 0, 0, 5000>>)
          [] w = "$6000"   -> Float(FALSE, <<0, 0, 0, 6000>>)]

\* AMOUNT_RE matches inside the word.
IsAmount(w) == w \in DOMAIN AmountLiterals

\* Index of the first word of text at or after i that satisfies P, 0 if none.
RECURSIVE FirstAmount(_, _)
FirstAmount(text, i) ==
    IF i > Len(text) THEN 0
    ELSE IF IsAmount(text[i]) THEN i
    ELSE FirstAmount(text, i + 1)

parse_amount(text) ==
    LET i == FirstAmount(text, 1)
    IN  IF i = 0 THEN None ELSE AmountLiterals[text[i]]

ACCT == {"checking", "savings"}

\* DIR_RE_1 matches the words starting at i.
DIR_RE_1(t, i) ==
    /\ i + 3 <= Len(t)
    /\ t[i] = "from"
    /\ t[i + 1] \in ACCT
    /\ t[i + 2] = "to"
    /\ t[i + 3] \in ACCT

\* DIR_RE_2 matches the words starting at i.
DIR_RE_2(t, i) ==
    /\ i + 2 <= Len(t)
    /\ t[i] \in ACCT
    /\ t[i + 1] = "to"
    /\ t[i + 2] \in ACCT

\* re.search: the leftmost position where the pattern matches, 0 if none.
Search1(t) ==
    LET hits == {i \in 1..Len(t) : DIR_RE_1(t, i)}
    IN  IF hits = {} THEN 0 ELSE CHOOSE i \in hits : \A j \in hits : i <= j

Search2(t) ==
    LET hits == {i \in 1..Len(t) : DIR_RE_2(t, i)}
    IN  IF hits = {} THEN 0 ELSE CHOOSE i \in hits : \A j \in hits : i <= j

\* Mutant of parse_direction: the looser pattern is tried first.
parse_direction_loose_first(text) ==
    LET m1 == Search1(text)
        m2 == Search2(text)
    IN  IF m2 # 0 THEN <<text[m2], text[m2 + 2]>>
        ELSE IF m1 # 0 THEN <<text[m1 + 1], text[m1 + 3]>>
        ELSE <<NoneStr, NoneStr>>

\* The pair (from_account, to_account), or (None, None).
parse_direction(text) ==
    LET m1 == Search1(text)
        m2 == Search2(text)
    IN  IF m1 # 0 THEN <<text[m1 + 1], text[m1 + 3]>>
        ELSE IF m2 # 0 THEN <<text[m2], text[m2 + 2]>>
        ELSE <<NoneStr, NoneStr>>

(***************************************************************************)
(* Intent routing                                                          *)
(***************************************************************************)
\* kw in t, for a keyword without blanks: some word contains it.
Contains(w, kw) == w = kw \/ (kw = "insight" /\ w = "insights")

In(kw, t) == \E i \in 1..Len(t) : Contains(t[i], kw)

\* "a b" in t, for a keyword of two words.
In2(a, b, t) == \E i \in 1..Len(t) - 1 : t[i] = a /\ t[i + 1] = b

\* Mutant of route_intent: the transfer keywords are tested before the CD rules.
route_intent_transfer_first(t) ==
    IF t = <<"insights">> \/ In2("show", "insights", t) \/ In2("my", "insights", t)
        THEN "bank_insights"
    ELSE IF In("transfer", t) \/ In("send", t) \/ In2("move", "money", t)
        THEN "bank_transfer"
    ELSE IF t = <<"manage", "cd">> \/ In2("manage", "cd", t)
        THEN "assets_cd_maturity"
    ELSE IF In("cd", t) /\ (In("maturity", t) \/ In("mature", t) \/ In("alert", t))
        THEN "assets_cd_maturity"
    ELSE IF t = <<"travel">> \/ In("travel", t)
        THEN "travel_upcoming"
    ELSE IF \/ In2("upcoming", "travel", t) \/ In2("upcoming", "trip", t)
            \/ (In("travel", t) /\ In("upcoming", t)) \/ In("vacation", t)
        THEN "travel_upcoming"
    ELSE IF In("agent", t) \/ In("representative", t) \/ In("human", t) \/ In2("talk", "to", t)
        THEN "agent_handoff"
    ELSE IF In("recurring", t) \/ In("subscription", t)
        THEN "bank_recurring_charges"
    ELSE IF In("spend", t) /\ (In("analysis", t) \/ In("insight", t))
        THEN "bank_spend_analysis"
    ELSE IF In("account", t) /\ (In("summary", t) \/ In("balance", t))
        THEN "bank_account_summary"
    ELSE "unknown"

route_intent(t) ==
    IF t = <<"insights">> \/ In2("show", "insights", t) \/ In2("my", "insights", t)
        THEN "bank_insights"
    ELSE IF t = <<"manage", "cd">> \/ In2("manage", "cd", t)
        THEN "assets_cd_maturity"
    ELSE IF In("cd", t) /\ (In("maturity", t) \/ In("mature", t) \/ In("alert", t))
        THEN "assets_cd_maturity"
    ELSE IF t = <<"travel">> \/ In("travel", t)
        THEN "travel_upcoming"
    ELSE IF \/ In2("upcoming", "travel", t) \/ In2("upcoming", "trip", t)
            \/ (In("travel", t) /\ In("upcoming", t)) \/ In("vacation", t)
        THEN "travel_upcoming"
    ELSE IF In("agent", t) \/ In("representative", t) \/ In("human", t) \/ In2("talk", "to", t)
        THEN "agent_handoff"
    ELSE IF In("recurring", t) \/ In("subscription", t)
        THEN "bank_recurring_charges"
    ELSE IF In("spend", t) /\ (In("analysis", t) \/ In("insight", t))
        THEN "bank_spend_analysis"
    ELSE IF In("account", t) /\ (In("summary", t) \/ In("balance", t))
        THEN "bank_account_summary"
    ELSE IF In("transfer", t) \/ In("send", t) \/ In2("move", "money", t)
        THEN "bank_transfer"
    ELSE IF In2("transfer", "money", t)
        THEN "bank_transfer"
    ELSE "unknown"

(***************************************************************************)
(* Policy (PIP-lite)                                                       *)
(***************************************************************************)
StepUp == Float(FALSE, <<0, 0, 0, 5000>>)

\* Mutant of InsufficientFunds: the rule is missing here and left to the confirm.
InsufficientFundsLater(amount, from_acct, state) == FALSE

\* Mutant of InsufficientFunds: the balance read is always the one of savings.
InsufficientFundsOfSavings(amount, from_acct, state) ==
    /\ from_acct \in {"checking", "savings"}
    /\ FGt(amount, state.balances["savings"])

\* Mutant of InsufficientFunds: ">=" for ">".
InsufficientFundsOrEqual(amount, from_acct, state) ==
    /\ from_acct \in {"checking", "savings"}
    /\ FGe(amount, state.balances[from_acct])

\* The early insufficient-funds rule (lines 168-170).
InsufficientFunds(amount, from_acct, state) ==
    /\ from_acct \in {"checking", "savings"}
    /\ FGt(amount, state.balances[from_acct])

\* Mutant of NeedsStepUp: ">" for ">=".
NeedsStepUpAbove(amount) == FGt(amount, StepUp)

\* The step-up rule (line 177).
NeedsStepUp(amount) == FGe(amount, StepUp)

policy_check(intent, entities, state) ==
    IF intent # "bank_transfer"
        THEN [allow |-> TRUE, risk |-> "low", reason |-> <<"Allowed">>]
    ELSE IF entities.amount = None
        THEN [allow |-> TRUE, risk |-> "medium", reason |-> <<"Needs amount">>]
    ELSE IF FLe(entities.amount, FZero)
        THEN [allow |-> FALSE, risk |-> "low", reason |-> <<"Transfer amount must be > 0.">>]
    ELSE IF InsufficientFunds(entities.amount, entities.from_account, state)
        THEN [allow |-> FALSE, risk |-> "low",
              reason |-> <<"Insufficient funds in", entities.from_account,
                           "Available:", Fmt2(state.balances[entities.from_account])>>]
    ELSE IF NeedsStepUp(entities.amount)
        THEN [allow |-> FALSE, risk |-> "high",
              reason |-> <<"For safety, transfers above $5,000 require additional verification.">>]
    ELSE [allow |-> TRUE, risk |-> "medium", reason |-> <<"Requires confirmation">>]

(***************************************************************************)
(* Policy gate of src/policy/pip.py                                        *)
(***************************************************************************)
PolicyDecision(allow, reason, risk) == [allow |-> allow, risk |-> risk, reason |-> reason]

\* (entities.get("from_account") or "checking").lower().strip()
SourceAccount(entities) ==
    IF entities.from_account = NoneStr THEN "checking" ELSE entities.from_account

\* float(balances.get(from_acct, 0) or 0)
Available(balances, from_acct) ==
    IF from_acct \in DOMAIN balances THEN balances[from_acct] ELSE FZero

evaluate_policy(intent, entities, balances) ==
    IF intent = "" \/ intent = "unknown"
        THEN PolicyDecision(FALSE, <<"I didn't understand that request.">>, "low")
    ELSE IF intent # "bank_transfer"
        THEN PolicyDecision(TRUE, <<"Allowed">>, "low")
    ELSE IF entities.amount = None
        THEN PolicyDecision(TRUE, <<"Amount required (clarify)">>, "low")
    ELSE IF FLe(entities.amount, FZero)
        THEN PolicyDecision(FALSE, <<"Transfer amount must be greater than $0.">>, "low")
    ELSE IF FGe(entities.amount, StepUp)
        THEN PolicyDecision(FALSE,
                 <<"For safety, transfers above $5,000 require additional verification (demo).">>,
                 "high")
    ELSE IF /\ balances # None
            /\ FLt(Available(balances, SourceAccount(entities)), entities.amount)
        THEN PolicyDecision(FALSE,
                 <<"Insufficient funds in", SourceAccount(entities), "Available:",
                   Fmt2(Available(balances, SourceAccount(entities)))>>,
                 "low")
    ELSE PolicyDecision(TRUE, <<"Allowed">>, "low")

(***************************************************************************)
(* Demo state                                                              *)
(***************************************************************************)
InitialBalances ==
    [checking |-> Float(FALSE, <<34048, 20971, 7864, 2450>>),   \* 2450.12
     savings  |-> Float(FALSE, <<0, 0, 0, 8900>>)]              \* 8900.00

\* Mutant of get_state: the session is built anew on every reference.
get_state_anew(store, session_id) ==
    (session_id :> [balances |-> InitialBalances, pending_action |-> None]) @@ store

\* The store after get_state(session_id): the session is created when unseen.
get_state(store, session_id) ==
    IF session_id \in DOMAIN store THEN store
    ELSE store @@ (session_id :> [balances |-> InitialBalances, pending_action |-> None])

(***************************************************************************)
(* Card builders                                                           *)
(***************************************************************************)
\* Mutant of card_transfer_choose_direction: one of the two buttons is missing.
card_transfer_one_direction ==
    [title |-> "Transfer money between your accounts",
     body |-> <<>>,
     actions |-> << [action_name |-> "transfer_set_direction",
                     params |-> [from_account |-> "checking", to_account |-> "savings"]] >>]

\* Mutant of card_transfer_choose_direction: the second button names savings
\* twice.
card_transfer_choose_same ==
    [title |-> "Transfer money between your accounts",
     body |-> <<>>,
     actions |-> << [action_name |-> "transfer_set_direction",
                     params |-> [from_account |-> "checking", to_account |-> "savings"]],
                    [action_name |-> "transfer_set_direction",
                     params |-> [from_account |-> "savings", to_account |-> "savings"]] >>]

card_transfer_choose_direction ==
    [title |-> "Transfer money between your accounts",
     body |-> <<>>,
     actions |-> << [action_name |-> "transfer_set_direction",
                     params |-> [from_account |-> "checking", to_account |-> "savings"]],
                    [action_name |-> "transfer_set_direction",
                     params |-> [from_account |-> "savings", to_account |-> "checking"]] >>]

\* Mutant of card_transfer_ask_amount: the wizard falls back to its first card.
card_transfer_ask_direction_again(from_acct, to_acct) ==
    [title |-> "Transfer money between your accounts", body |-> <<>>, actions |-> <<>>]

card_transfer_ask_amount(from_acct, to_acct) ==
    [title |-> "Transfer amount", body |-> <<from_acct, to_acct>>, actions |-> <<>>]

\* Mutant of card_transfer_confirm: the body names the accounts only.
card_transfer_confirm_no_amount(from_acct, to_acct, amt, action_id) ==
    [title |-> "Confirm transfer",
     body |-> <<from_acct, to_acct>>,
     actions |-> << [action_name |-> "confirm_transfer", params |-> [action_id |-> action_id]],
                    [action_name |-> "cancel_transfer", params |-> [action_id |-> action_id]] >>]

card_transfer_confirm(from_acct, to_acct, amt, action_id) ==
    [title |-> "Confirm transfer",
     body |-> <<Fmt2(amt), from_acct, to_acct>>,
     actions |-> << [action_name |-> "confirm_transfer", params |-> [action_id |-> action_id]],
                    [action_name |-> "cancel_transfer", params |-> [action_id |-> action_id]] >>]

\* The card of the read-only intents (their canned bodies are left out).
card_static(intent, state) ==
    CASE intent = "bank_insights" ->
            [title |-> "Insights", body |-> <<>>, actions |-> <<>>]
      [] intent = "assets_cd_maturity" ->
            [title |-> "Manage CD", body |-> <<>>, actions |-> <<>>]
      [] intent = "travel_upcoming" ->
            [title |-> "Travel", body |-> <<>>, actions |-> <<>>]
      [] intent = "agent_handoff" ->
            [title |-> "Talk to an Agent", body |-> <<>>,
             actions |-> << [action_name |-> "agent_connect", params |-> [agent_notes |-> "notes"]],
                            [action_name |-> "agent_cancel", params |-> <<>>] >>]
      [] intent = "bank_recurring_charges" ->
            [title |-> "Subscriptions & Recurring Charges", body |-> <<>>, actions |-> <<>>]
      [] intent = "bank_account_summary" ->
            [title |-> "Account Summary",
             body |-> <<Fmt2(state.balances.checking), Fmt2(state.balances.savings)>>,
             actions |-> <<>>]
      [] intent = "bank_spend_analysis" ->
            [title |-> "Spend Analysis", body |-> <<>>, actions |-> <<>>]
      [] OTHER ->
            [title |-> "Try something else", body |-> <<>>, actions |-> <<>>]

(***************************************************************************)
(* /orchestrate                                                            *)
(***************************************************************************)
\* Mutant of Blocked: the decision of the gate is not looked at.
BlockedNever(policy) == FALSE

\* if not policy["allow"] (lines 345, 749).
Blocked(policy) == ~policy.allow

\* Mutant of ClearPending: the assignment is missing.
KeepPending(store, sid) == store

\* Mutant of ClearPending: the wizard is rewound to its first stage, its slots
\* kept.
RewindPending(store, sid) ==
    [store EXCEPT ![sid].pending_action =
        IF @ = None THEN None ELSE [@ EXCEPT !.stage = "awaiting_direction"]]

\* Mutant of ClearPending: an empty wizard record is left instead of None.
EmptyPending(store, sid) ==
    [store EXCEPT ![sid].pending_action = [type |-> "transfer"]]

\* Mutant of ClearPending: the pending action of every session is dropped.
ClearPendingEverywhere(store, sid) ==
    [s \in DOMAIN store |-> [store[s] EXCEPT !.pending_action = None]]

\* state["pending_action"] = None (lines 346, 750, 995, 1014).
ClearPending(store, sid) == [store EXCEPT ![sid].pending_action = None]

PolicyAllowed == [allow |-> TRUE, risk |-> "low", reason |-> <<"Allowed">>]

PolicyNeeds(what) == [allow |-> TRUE, risk |-> "medium", reason |-> <<what>>]

IsTransfer(pending, stage) ==
    /\ pending # None
    /\ "type" \in DOMAIN pending /\ pending.type = "transfer"
    /\ "stage" \in DOMAIN pending /\ pending.stage = stage

\* Mutant of orchestrate_amount: the transfer is carried out as soon as the
\* amount is typed.
orchestrate_amount_eager(store, req, uuid4) ==
    LET sid     == req.session_id
        state   == store[sid]
        pending == state.pending_action
        amt     == parse_amount(req.text)
        moved   == [state.balances EXCEPT
                       ![pending.from_account] = FSub(@, amt),
                       ![pending.to_account]   = FAdd(state.balances[pending.to_account], amt)]
    IN  IF amt = None THEN
            [store |-> store, minted |-> FALSE,
             response |-> [session_id |-> sid,
                           messages |-> <<"How much would you like to transfer?">>,
                           card |-> card_transfer_ask_amount(pending.from_account, pending.to_account),
                           debug |-> [intent |-> "bank_transfer", entities |-> <<>>,
                                      policy |-> PolicyNeeds("Needs amount")]]]
        ELSE
            [store |-> [store EXCEPT ![sid] = [balances |-> moved, pending_action |-> None]],
             minted |-> FALSE,
             response |-> [session_id |-> sid,
                           messages |-> <<"Transfer complete.">>,
                           card |-> [title |-> "Transfer complete", body |-> <<>>,
                                     actions |-> <<>>],
                           debug |-> [intent |-> "bank_transfer", entities |-> <<>>,
                                      policy |-> PolicyAllowed]]]

\* Mutant of orchestrate_amount: a reply without an amount abandons the wizard.
orchestrate_amount_abandoning(store, req, uuid4) ==
    LET sid     == req.session_id
        state   == store[sid]
        pending == state.pending_action
        amt     == parse_amount(req.text)
        entities == [amount |-> amt, from_account |-> pending.from_account,
                     to_account |-> pending.to_account]
        policy  == policy_check("bank_transfer", entities, state)
    IN  IF amt = None THEN
            [store |-> ClearPending(store, sid), minted |-> FALSE,
             response |-> [session_id |-> sid,
                           messages |-> <<"How much would you like to transfer?">>,
                           card |-> card_transfer_ask_amount(pending.from_account, pending.to_account),
                           debug |-> [intent |-> "bank_transfer", entities |-> <<>>,
                                      policy |-> PolicyNeeds("Needs amount")]]]
        ELSE IF Blocked(policy) THEN
            [store |-> ClearPending(store, sid), minted |-> FALSE,
             response |-> [session_id |-> sid,
                           messages |-> policy.reason,
                           card |-> [title |-> "Transfer blocked", body |-> policy.reason,
                                     actions |-> <<>>],
                           debug |-> [intent |-> "bank_transfer", entities |-> entities,
                                      policy |-> policy]]]
        ELSE
            [store |-> [store EXCEPT ![sid].pending_action =
                            [id |-> uuid4, type |-> "transfer", stage |-> "awaiting_confirm",
                             from_account |-> pending.from_account,
                             to_account |-> pending.to_account, amount |-> amt]],
             minted |-> TRUE,
             response |-> [session_id |-> sid,
                           messages |-> <<"For your safety, please confirm this transfer.">>,
                           card |-> card_transfer_confirm(pending.from_account,
                                                          pending.to_account, amt, uuid4),
                           debug |-> [intent |-> "bank_transfer", entities |-> entities,
                                      policy |-> policy]]]

\* The wizard is awaiting the amount (lines 316-397).
orchestrate_amount(store, req, uuid4) ==
    LET sid     == req.session_id
        state   == store[sid]
        pending == state.pending_action
        amt     == parse_amount(req.text)
        entities == [amount |-> amt, from_account |-> pending.from_account,
                     to_account |-> pending.to_account]
        policy  == policy_check("bank_transfer", entities, state)
    IN  IF amt = None THEN
            [store |-> store, minted |-> FALSE,
             response |-> [session_id |-> sid,
                           messages |-> <<"How much would you like to transfer?">>,
                           card |-> card_transfer_ask_amount(pending.from_account, pending.to_account),
                           debug |-> [intent |-> "bank_transfer", entities |-> <<>>,
                                      policy |-> PolicyNeeds("Needs amount")]]]
        ELSE IF Blocked(policy) THEN
            [store |-> ClearPending(store, sid), minted |-> FALSE,
             response |-> [session_id |-> sid,
                           messages |-> policy.reason,
                           card |-> [title |-> "Transfer blocked", body |-> policy.reason,
                                     actions |-> <<>>],
                           debug |-> [intent |-> "bank_transfer", entities |-> entities,
                                      policy |-> policy]]]
        ELSE
            [store |-> [store EXCEPT ![sid].pending_action =
                            [id |-> uuid4, type |-> "transfer", stage |-> "awaiting_confirm",
                             from_account |-> pending.from_account,
                             to_account |-> pending.to_account, amount |-> amt]],
             minted |-> TRUE,
             response |-> [session_id |-> sid,
                           messages |-> <<"For your safety, please confirm this transfer.">>,
                           card |-> card_transfer_confirm(pending.from_account,
                                                          pending.to_account, amt, uuid4),
                           debug |-> [intent |-> "bank_transfer", entities |-> entities,
                                      policy |-> policy]]]

\* intent == "bank_transfer" (lines 669-801).
orchestrate_transfer(store, req, uuid4) ==
    LET sid       == req.session_id
        state     == store[sid]
        intent    == "bank_transfer"
        dir       == parse_direction(req.text)
        from_acct == dir[1]
        to_acct   == dir[2]
        amt       == parse_amount(req.text)
        entities  == [amount |-> amt, from_account |-> from_acct, to_account |-> to_acct]
        policy    == policy_check(intent, entities, state)
    IN  IF (from_acct = NoneStr \/ to_acct = NoneStr) /\ amt = None THEN
            [store |-> [store EXCEPT ![sid].pending_action =
                            [type |-> "transfer", stage |-> "awaiting_direction"]],
             minted |-> FALSE,
             response |-> [session_id |-> sid,
                           messages |-> <<"Sure - where do you want to transfer money from and to?">>,
                           card |-> card_transfer_choose_direction,
                           debug |-> [intent |-> intent, entities |-> <<>>,
                                      policy |-> PolicyNeeds("Needs direction")]]]
        ELSE IF (from_acct = NoneStr \/ to_acct = NoneStr) /\ amt # None THEN
            [store |-> [store EXCEPT ![sid].pending_action =
                            [type |-> "transfer", stage |-> "awaiting_direction",
                             amount_hint |-> amt]],
             minted |-> FALSE,
             response |-> [session_id |-> sid,
                           messages |-> <<"Got it - you want to transfer", Fmt2(amt),
                                          "Which direction?">>,
                           card |-> card_transfer_choose_direction,
                           debug |-> [intent |-> intent, entities |-> [amount |-> amt],
                                      policy |-> PolicyNeeds("Needs direction")]]]
        ELSE IF amt = None THEN
            [store |-> [store EXCEPT ![sid].pending_action =
                            [type |-> "transfer", stage |-> "awaiting_amount",
                             from_account |-> from_acct, to_account |-> to_acct]],
             minted |-> FALSE,
             response |-> [session_id |-> sid,
                           messages |-> <<"How much would you like to transfer from",
                                          from_acct, to_acct>>,
                           card |-> card_transfer_ask_amount(from_acct, to_acct),
                           debug |-> [intent |-> intent,
                                      entities |-> [from_account |-> from_acct,
                                                    to_account |-> to_acct],
                                      policy |-> PolicyNeeds("Needs amount")]]]
        ELSE IF Blocked(policy) THEN
            [store |-> ClearPending(store, sid), minted |-> FALSE,
             response |-> [session_id |-> sid,
                           messages |-> policy.reason,
                           card |-> [title |-> "Transfer blocked", body |-> policy.reason,
                                     actions |-> <<>>],
                           debug |-> [intent |-> intent, entities |-> entities,
                                      policy |-> policy]]]
        ELSE
            [store |-> [store EXCEPT ![sid].pending_action =
                            [id |-> uuid4, type |-> "transfer", stage |-> "awaiting_confirm",
                             from_account |-> from_acct, to_account |-> to_acct,
                             amount |-> amt]],
             minted |-> TRUE,
             response |-> [session_id |-> sid,
                           messages |-> <<"For your safety, please confirm this transfer.">>,
                           card |-> card_transfer_confirm(from_acct, to_acct, amt, uuid4),
                           debug |-> [intent |-> intent, entities |-> entities,
                                      policy |-> policy]]]

\* The whole handler: the new store, the response, and whether uuid4 was drawn.
orchestrate(store0, req, uuid4) ==
    LET store  == get_state(store0, req.session_id)
        state  == store[req.session_id]
        intent == route_intent(req.text)
    IN  IF IsTransfer(state.pending_action, "awaiting_amount")
            THEN orchestrate_amount(store, req, uuid4)
        ELSE IF intent = "bank_transfer"
            THEN orchestrate_transfer(store, req, uuid4)
        ELSE [store |-> store, minted |-> FALSE,
              response |-> [session_id |-> req.session_id,
                            messages |-> <<intent>>,
                            card |-> card_static(intent, state),
                            debug |-> [intent |-> intent, entities |-> <<>>,
                                       policy |-> PolicyAllowed]]]

(***************************************************************************)
(* /action                                                                 *)
(***************************************************************************)
\* params.get(key), None (as a string) when the key is absent.
ParamStr(params, key) == IF key \in DOMAIN params THEN params[key] ELSE NoneStr

\* action_name == "insight_view" (lines 841-961).
action_insight_view(store, req) ==
    LET iid == IF "insight_id" \in DOMAIN req.params THEN req.params.insight_id ELSE ""
        title == CASE iid = "spend_path" -> "Spend Analysis"
                   [] iid = "upcoming_cd_maturity" -> "Manage CD"
                   [] iid = "travel" -> "Travel"
                   [] iid = "subscriptions" -> "Subscriptions & Recurring Charges"
                   [] OTHER -> "Insight"
    IN  [store |-> store, applied |-> None,
         response |-> [ok |-> TRUE, messages |-> <<"Opening", iid>>,
                       card |-> [title |-> title, body |-> <<>>, actions |-> <<>>],
                       debug |-> [action |-> req.action_name]]]

\* Mutant of action_set_direction: the hint of the replaced pending action is
\* not looked up.
action_set_direction_forgetful(store, req) ==
    LET sid       == req.session_id
        from_acct == ParamStr(req.params, "from_account")
        to_acct   == ParamStr(req.params, "to_account")
    IN  IF \/ from_acct \notin {"checking", "savings"}
           \/ to_acct \notin {"checking", "savings"}
           \/ from_acct = to_acct
        THEN [store |-> store, applied |-> None,
              response |-> [ok |-> FALSE, messages |-> <<"Invalid direction.">>]]
        ELSE [store |-> [store EXCEPT ![sid].pending_action =
                            [type |-> "transfer", stage |-> "awaiting_amount",
                             from_account |-> from_acct, to_account |-> to_acct]],
              applied |-> None,
              response |-> [ok |-> TRUE,
                            messages |-> <<"Great", from_acct, to_acct,
                                           "How much would you like to transfer?">>,
                            card |-> card_transfer_ask_amount(from_acct, to_acct),
                            debug |-> [action |-> req.action_name]]]

\* Mutant of action_set_direction: an offer awaiting its confirmation is kept.
action_set_direction_keeping_offer(store, req) ==
    LET sid       == req.session_id
        pending   == store[sid].pending_action
        from_acct == ParamStr(req.params, "from_account")
        to_acct   == ParamStr(req.params, "to_account")
    IN  IF \/ from_acct \notin {"checking", "savings"}
           \/ to_acct \notin {"checking", "savings"}
           \/ from_acct = to_acct
        THEN [store |-> store, applied |-> None,
              response |-> [ok |-> FALSE, messages |-> <<"Invalid direction.">>]]
        ELSE [store |-> IF IsTransfer(pending, "awaiting_confirm") THEN store
                        ELSE [store EXCEPT ![sid].pending_action =
                                 [type |-> "transfer", stage |-> "awaiting_amount",
                                  from_account |-> from_acct, to_account |-> to_acct]],
              applied |-> None,
              response |-> [ok |-> TRUE,
                            messages |-> <<"Great", from_acct, to_acct,
                                           "How much would you like to transfer?">>,
                            card |-> card_transfer_ask_amount(from_acct, to_acct),
                            debug |-> [action |-> req.action_name]]]

\* Mutant of action_set_direction: a hinted amount is taken as the amount and
\* the transfer offered at once.
action_set_direction_using_hint(store, req) ==
    LET sid       == req.session_id
        pending   == store[sid].pending_action
        from_acct == ParamStr(req.params, "from_account")
        to_acct   == ParamStr(req.params, "to_account")
        amount_hint ==
            IF /\ pending # None
               /\ "type" \in DOMAIN pending /\ pending.type = "transfer"
               /\ "amount_hint" \in DOMAIN pending /\ pending.amount_hint # None
            THEN pending.amount_hint ELSE None
    IN  IF \/ from_acct \notin {"checking", "savings"}
           \/ to_acct \notin {"checking", "savings"}
           \/ from_acct = to_acct
        THEN [store |-> store, applied |-> None,
              response |-> [ok |-> FALSE, messages |-> <<"Invalid direction.">>]]
        ELSE [store |-> [store EXCEPT ![sid].pending_action =
                            IF amount_hint # None
                            THEN [id |-> 0, type |-> "transfer", stage |-> "awaiting_confirm",
                                  from_account |-> from_acct, to_account |-> to_acct,
                                  amount |-> amount_hint]
                            ELSE [type |-> "transfer", stage |-> "awaiting_amount",
                                  from_account |-> from_acct, to_account |-> to_acct]],
              applied |-> None,
              response |-> [ok |-> TRUE,
                            messages |-> IF amount_hint # None
                                         THEN <<"Great", from_acct, to_acct,
                                                "You mentioned", Fmt2(amount_hint)>>
                                         ELSE <<"Great", from_acct, to_acct,
                                                "How much would you like to transfer?">>,
                            card |-> card_transfer_ask_amount(from_acct, to_acct),
                            debug |-> [action |-> req.action_name]]]

\* Mutant of action_set_direction: an invalid direction drops the pending
\* action.
action_set_direction_resetting(store, req) ==
    LET sid       == req.session_id
        pending   == store[sid].pending_action
        from_acct == ParamStr(req.params, "from_account")
        to_acct   == ParamStr(req.params, "to_account")
        amount_hint ==
            IF /\ pending # None
               /\ "type" \in DOMAIN pending /\ pending.type = "transfer"
               /\ "amount_hint" \in DOMAIN pending /\ pending.amount_hint # None
            THEN pending.amount_hint ELSE None
    IN  IF \/ from_acct \notin {"checking", "savings"}
           \/ to_acct \notin {"checking", "savings"}
           \/ from_acct = to_acct
        THEN [store |-> [store EXCEPT ![sid].pending_action = None], applied |-> None,
              response |-> [ok |-> FALSE, messages |-> <<"Invalid direction.">>]]
        ELSE [store |-> [store EXCEPT ![sid].pending_action =
                            [type |-> "transfer", stage |-> "awaiting_amount",
                             from_account |-> from_acct, to_account |-> to_acct]],
              applied |-> None,
              response |-> [ok |-> TRUE,
                            messages |-> IF amount_hint # None
                                         THEN <<"Great", from_acct, to_acct,
                                                "You mentioned", Fmt2(amount_hint)>>
                                         ELSE <<"Great", from_acct, to_acct,
                                                "How much would you like to transfer?">>,
                            card |-> card_transfer_ask_amount(from_acct, to_acct),
                            debug |-> [action |-> req.action_name]]]

\* action_name == "transfer_set_direction" (lines 966-991).
action_set_direction(store, req) ==
    LET sid       == req.session_id
        pending   == store[sid].pending_action
        from_acct == ParamStr(req.params, "from_account")
        to_acct   == ParamStr(req.params, "to_account")
        amount_hint ==
            IF /\ pending # None
               /\ "type" \in DOMAIN pending /\ pending.type = "transfer"
               /\ "amount_hint" \in DOMAIN pending /\ pending.amount_hint # None
            THEN pending.amount_hint ELSE None
    IN  IF \/ from_acct \notin {"checking", "savings"}
           \/ to_acct \notin {"checking", "savings"}
           \/ from_acct = to_acct
        THEN [store |-> store, applied |-> None,
              response |-> [ok |-> FALSE, messages |-> <<"Invalid direction.">>]]
        ELSE [store |-> [store EXCEPT ![sid].pending_action =
                            [type |-> "transfer", stage |-> "awaiting_amount",
                             from_account |-> from_acct, to_account |-> to_acct]],
              applied |-> None,
              response |-> [ok |-> TRUE,
                            messages |-> IF amount_hint # None
                                         THEN <<"Great", from_acct, to_acct,
                                                "You mentioned", Fmt2(amount_hint)>>
                                         ELSE <<"Great", from_acct, to_acct,
                                                "How much would you like to transfer?">>,
                            card |-> card_transfer_ask_amount(from_acct, to_acct),
                            debug |-> [action |-> req.action_name]]]

\* Mutant of action_cancel: with nothing pending the cancel is an error.
action_cancel_strict(store, req) ==
    IF store[req.session_id].pending_action = None
    THEN [store |-> store, applied |-> None,
          response |-> [ok |-> FALSE, messages |-> <<"No transfer to cancel.">>]]
    ELSE [store |-> ClearPending(store, req.session_id), applied |-> None,
          response |-> [ok |-> TRUE, messages |-> <<"Transfer cancelled.">>,
                        card |-> [title |-> "Cancelled", body |-> <<>>, actions |-> <<>>],
                        debug |-> [action |-> req.action_name]]]

\* action_name == "cancel_transfer" (lines 994-1001).
action_cancel(store, req) ==
    [store |-> ClearPending(store, req.session_id),
     applied |-> None,
     response |-> [ok |-> TRUE, messages |-> <<"Transfer cancelled.">>,
                   card |-> [title |-> "Cancelled", body |-> <<>>, actions |-> <<>>],
                   debug |-> [action |-> req.action_name]]]

\* b[from_acct] -= amount; b[to_acct] += amount (lines 1021-1022).
Debit(b, from_acct, amount) == [b EXCEPT ![from_acct] = FSub(b[from_acct], amount)]

\* Mutant of Credit: "-=" copied from the line above.
CreditSubtracts(b, to_acct, amount) == [b EXCEPT ![to_acct] = FSub(b[to_acct], amount)]

Credit(b, to_acct, amount) == [b EXCEPT ![to_acct] = FAdd(b[to_acct], amount)]

\* Mutant of Overdraws: the confirm trusts the decision of the gate.
OverdrawsNever(amount, b, from_acct) == FALSE

\* The execution-time check of the funds (line 1013).
Overdraws(amount, b, from_acct) == FGt(amount, b[from_acct])

\* Mutant of action_confirm: the rejection also drops whatever is pending.
action_confirm_dropping(store, req) ==
    [store |-> ClearPending(store, req.session_id), applied |-> None,
     response |-> [ok |-> FALSE, messages |-> <<"No transfer to confirm.">>]]

\* Mutant of action_confirm: the pending action is kept after the transfer.
action_confirm_keeping(store, req) ==
    LET sid     == req.session_id
        state   == store[sid]
        pending == state.pending_action
    IN  IF ~IsTransfer(pending, "awaiting_confirm")
        THEN [store |-> store, applied |-> None,
              response |-> [ok |-> FALSE, messages |-> <<"No transfer to confirm.">>]]
        ELSE
        LET amount    == pending.amount
            from_acct == pending.from_account
            to_acct   == pending.to_account
            b         == Credit(Debit(state.balances, from_acct, amount), to_acct, amount)
        IN  IF Overdraws(amount, state.balances, from_acct)
            THEN [store |-> ClearPending(store, sid),
                  applied |-> None,
                  response |-> [ok |-> FALSE,
                                messages |-> <<"Insufficient funds in", from_acct>>,
                                card |-> [title |-> "Transfer blocked", body |-> <<>>,
                                          actions |-> <<>>]]]
            ELSE [store |-> [store EXCEPT ![sid].balances = b],
                  applied |-> pending,
                  response |-> [ok |-> TRUE,
                                messages |-> <<"Transfer complete. Moved", Fmt2(amount), to_acct>>,
                                card |-> [title |-> "Transfer complete",
                                          body |-> <<Fmt2(b.checking), Fmt2(b.savings)>>,
                                          actions |-> <<>>],
                                balances |-> b,
                                debug |-> [action |-> req.action_name]]]

\* action_name == "confirm_transfer" (lines 1004-1036).
action_confirm(store, req) ==
    LET sid     == req.session_id
        state   == store[sid]
        pending == state.pending_action
    IN  IF ~IsTransfer(pending, "awaiting_confirm")
        THEN [store |-> store, applied |-> None,
              response |-> [ok |-> FALSE, messages |-> <<"No transfer to confirm.">>]]
        ELSE
        LET amount    == pending.amount
            from_acct == pending.from_account
            to_acct   == pending.to_account
            b         == Credit(Debit(state.balances, from_acct, amount), to_acct, amount)
        IN  IF Overdraws(amount, state.balances, from_acct)
            THEN [store |-> ClearPending(store, sid),
                  applied |-> None,
                  response |-> [ok |-> FALSE,
                                messages |-> <<"Insufficient funds in", from_acct>>,
                                card |-> [title |-> "Transfer blocked", body |-> <<>>,
                                          actions |-> <<>>]]]
            ELSE [store |-> [store EXCEPT ![sid] = [balances |-> b, pending_action |-> None]],
                  applied |-> pending,
                  response |-> [ok |-> TRUE,
                                messages |-> <<"Transfer complete. Moved", Fmt2(amount), to_acct>>,
                                card |-> [title |-> "Transfer complete",
                                          body |-> <<Fmt2(b.checking), Fmt2(b.savings)>>,
                                          actions |-> <<>>],
                                balances |-> b,
                                debug |-> [action |-> req.action_name]]]

\* The whole handler: the new store, the response, and the pending transfer
\* whose debit and credit were applied (None when no balance was touched).
action(store0, req) ==
    LET store == get_state(store0, req.session_id)
    IN  CASE req.action_name = "insight_view" -> action_insight_view(store, req)
          [] req.action_name = "transfer_set_direction" -> action_set_direction(store, req)
          [] req.action_name = "cancel_transfer" -> action_cancel(store, req)
          [] req.action_name = "confirm_transfer" -> action_confirm(store, req)
          [] req.action_name = "agent_connect" ->
                [store |-> store, applied |-> None,
                 response |-> [ok |-> TRUE,
                               messages |-> <<"Connected. An agent has your context.">>,
                               card |-> [title |-> "Agent Connected", body |-> <<>>,
                                         actions |-> <<>>],
                               debug |-> [action |-> req.action_name]]]
          [] req.action_name = "agent_cancel" ->
                [store |-> store, applied |-> None,
                 response |-> [ok |-> TRUE,
                               messages |-> <<"No problem - I'm here if you need me.">>,
                               card |-> [title |-> "Stayed in chat", body |-> <<>>,
                                         actions |-> <<>>],
                               debug |-> [action |-> req.action_name]]]
          [] OTHER ->
                [store |-> store, applied |-> None,
                 response |-> [ok |-> FALSE, messages |-> <<"Unknown action.">>,
                               debug |-> [action |-> req.action_name]]]

(***************************************************************************)
(* The requests the clients send                                           *)
(***************************************************************************)
SessionIds == {"s1"}

\* The number of confirmation tokens uuid4 hands out in a run.
MaxTokens == 2

Texts ==
    { <<"transfer", "money">>,
      <<"transfer", "$25">>,
      <<"$25">>,
      <<"$148.63">>,
      <<"$3000">>,
      <<"$6000">>,
      <<"$0">>,
      <<"transfer", "from", "checking", "to", "savings">>,
      <<"transfer", "$25", "from", "checking", "to", "savings">>,
      <<"transfer", "$6000", "from", "checking", "to", "savings">>,
      <<"send", "$3000", "from", "checking", "to", "savings">>,
      <<"transfer", "$148.63", "from", "savings", "to", "checking">>,
      <<"send", "$5,000", "savings", "to", "checking">>,
      <<"transfer", "$25", "from", "checking", "to", "checking">>,
      <<"account", "summary">>,
      <<"hello">> }

\* The action_id a client can send: a token it was shown, or 0 for one that was
\* never minted.
ActionParams(name, minted) ==
    CASE name \in {"confirm_transfer", "cancel_transfer"} ->
            {<<>>} \cup {[action_id |-> t] : t \in 0..minted}
      [] name = "transfer_set_direction" ->
            { [from_account |-> "checking", to_account |-> "savings"],
              [from_account |-> "savings", to_account |-> "checking"],
              [from_account |-> "checking", to_account |-> "checking"],
              [from_account |-> "savings", to_account |-> "brokerage"],
              [from_account |-> "checking"] }
      [] name = "insight_view" -> { [insight_id |-> "travel"] }
      [] OTHER -> { <<>> }

ActionNames ==
    {"insight_view", "transfer_set_direction", "cancel_transfer", "confirm_transfer",
     "agent_cancel", "delete_account"}

(***************************************************************************)
(* The system: requests are handled one at a time.                         *)
(*   DEMO_STATE  the session store (_DEMO_STATE)                           *)
(*   uuids       how many uuid4 tokens were minted                         *)
(*   request     the request handled last                                  *)
(*   response    its response                                              *)
(*   confirmed   history: the (session_id, action_id) of the               *)
(*               confirm_transfer requests that applied a transfer         *)
(*   threads     the position and the locals of the worker threads that    *)
(*               are inside a handler (used when requests overlap)         *)
(***************************************************************************)
\* The worker threads of the server's pool that the overlapping requests use.
ThreadIds == {"t1", "t2"}

\* A worker that is not inside a handler.
Idle == [pc |-> "idle"]

VARIABLES DEMO_STATE, uuids, request, response, confirmed, threads

vars == <<DEMO_STATE, uuids, request, response, confirmed, threads>>

Init ==
    /\ DEMO_STATE = <<>>
    /\ uuids = 0
    /\ request = [endpoint |-> "none"]
    /\ response = None
    /\ confirmed = {}
    /\ threads = [t \in ThreadIds |-> Idle]

Orchestrate(sid, text) ==
    LET req == [endpoint |-> "orchestrate", session_id |-> sid, text |-> text]
    IN  \E r \in {orchestrate(DEMO_STATE, req, uuids + 1)} :
        /\ r.minted => uuids < MaxTokens
        /\ DEMO_STATE' = r.store
        /\ request' = req
        /\ response' = r.response
        /\ uuids' = IF r.minted THEN uuids + 1 ELSE uuids
        /\ UNCHANGED <<confirmed, threads>>

Action(sid, name, params) ==
    LET req == [endpoint |-> "action", session_id |-> sid, action_name |-> name,
                params |-> params]
    IN  \E r \in {action(DEMO_STATE, req)} :
        /\ DEMO_STATE' = r.store
        /\ request' = req
        /\ response' = r.response
        /\ confirmed' = IF r.applied # None /\ "action_id" \in DOMAIN params
                        THEN confirmed \cup {<<sid, params.action_id>>}
                        ELSE confirmed
        /\ UNCHANGED <<uuids, threads>>

Next ==
    \/ \E sid \in SessionIds, text \in Texts : Orchestrate(sid, text)
    \/ \E sid \in SessionIds, name \in ActionNames :
          \E params \in ActionParams(name, uuids) : Action(sid, name, params)

Spec == Init /\ [][Next]_vars

(***************************************************************************)
(* Overlapping requests.  The handlers are plain functions, which the      *)
(* server runs on the threads of a pool with no lock around the session    *)
(* store: a confirm_transfer is a sequence of reads and writes of the      *)
(* shared session between which the other thread can run.  An /orchestrate *)
(* in between is taken whole.                                              *)
(***************************************************************************)
RacingTexts ==
    { <<"transfer", "$2000", "from", "checking", "to", "savings">>,
      <<"transfer", "$25", "from", "savings", "to", "checking">>,
      <<"account", "summary">> }

RejectedConfirm == [ok |-> FALSE, messages |-> <<"No transfer to confirm.">>]

\* Lines 835-836 and 1004-1010: the thread fetches the session, keeps the
\* pending action it finds in a local, and tests its stage.  The request is
\* the confirm button of the newest offer, tapped once or twice.
ConfirmBegin(t, sid) ==
    LET req == [endpoint |-> "action", session_id |-> sid,
                action_name |-> "confirm_transfer",
                params |-> IF uuids = 0 THEN <<>> ELSE [action_id |-> uuids]]
        store == get_state(DEMO_STATE, sid)
        pending == store[sid].pending_action
    IN  /\ threads[t] = Idle
        /\ DEMO_STATE' = store
        /\ IF IsTransfer(pending, "awaiting_confirm")
           THEN /\ threads' = [threads EXCEPT ![t] =
                                  [pc |-> "funds", req |-> req, pending |-> pending]]
                /\ UNCHANGED <<request, response>>
           ELSE /\ threads' = threads
                /\ request' = req
                /\ response' = RejectedConfirm
        /\ UNCHANGED <<uuids, confirmed>>

\* Line 1013: amount > float(b.get(from_acct, 0)), on the balance held now.
ConfirmFunds(t) ==
    LET th == threads[t]
        b  == DEMO_STATE[th.req.session_id].balances
    IN  /\ th.pc = "funds"
        /\ threads' = [threads EXCEPT ![t].pc =
                          IF Overdraws(th.pending.amount, b, th.pending.from_account)
                          THEN "blocked" ELSE "debit"]
        /\ UNCHANGED <<DEMO_STATE, uuids, request, response, confirmed>>

\* Lines 1014-1019: the pending action is dropped and the failure returned.
ConfirmBlocked(t) ==
    LET th == threads[t]
    IN  /\ th.pc = "blocked"
        /\ DEMO_STATE' = ClearPending(DEMO_STATE, th.req.session_id)
        /\ threads' = [threads EXCEPT ![t] = Idle]
        /\ request' = th.req
        /\ response' = [ok |-> FALSE,
                        messages |-> <<"Insufficient funds in", th.pending.from_account>>,
                        card |-> [title |-> "Transfer blocked", body |-> <<>>,
                                  actions |-> <<>>]]
        /\ UNCHANGED <<uuids, confirmed>>

\* Lines 1021 and 1022: "b[k] -= amount" and "b[k] += amount" each load the
\* balance and store the result, two steps.
BalanceLoad(t, at, acct, then) ==
    LET th == threads[t]
    IN  /\ th.pc = at
        /\ threads' = [threads EXCEPT ![t] =
                          [pc |-> then, req |-> th.req, pending |-> th.pending,
                           loaded |-> DEMO_STATE[th.req.session_id].balances[th.pending[acct]]]]
        /\ UNCHANGED <<DEMO_STATE, uuids, request, response, confirmed>>

DebitLoad(t) == BalanceLoad(t, "debit", "from_account", "debit_store")

DebitStore(t) ==
    LET th == threads[t]
    IN  /\ th.pc = "debit_store"
        /\ DEMO_STATE' = [DEMO_STATE EXCEPT
                             ![th.req.session_id].balances[th.pending.from_account] =
                                 FSub(th.loaded, th.pending.amount)]
        /\ threads' = [threads EXCEPT ![t].pc = "credit"]
        /\ UNCHANGED <<uuids, request, response, confirmed>>

CreditLoad(t) == BalanceLoad(t, "credit", "to_account", "credit_store")

CreditStore(t) ==
    LET th == threads[t]
    IN  /\ th.pc = "credit_store"
        /\ DEMO_STATE' = [DEMO_STATE EXCEPT
                             ![th.req.session_id].balances[th.pending.to_account] =
                                 FAdd(th.loaded, th.pending.amount)]
        /\ threads' = [threads EXCEPT ![t].pc = "done"]
        /\ UNCHANGED <<uuids, request, response, confirmed>>

\* Lines 1023-1036: the pending action is dropped and the balances returned.
ConfirmDone(t) ==
    LET th == threads[t]
        sid == th.req.session_id
        b  == DEMO_STATE[sid].balances
    IN  /\ th.pc = "done"
        /\ DEMO_STATE' = ClearPending(DEMO_STATE, sid)
        /\ threads' = [threads EXCEPT ![t] = Idle]
        /\ request' = th.req
        /\ response' = [ok |-> TRUE,
                        messages |-> <<"Transfer complete. Moved",
                                       Fmt2(th.pending.amount), th.pending.to_account>>,
                        card |-> [title |-> "Transfer complete",
                                  body |-> <<Fmt2(b.checking), Fmt2(b.savings)>>,
                                  actions |-> <<>>],
                        balances |-> b,
                        debug |-> [action |-> th.req.action_name]]
        /\ confirmed' = IF "action_id" \in DOMAIN th.req.params
                        THEN confirmed \cup {<<sid, th.req.params.action_id>>}
                        ELSE confirmed
        /\ UNCHANGED uuids

NextThreads ==
    \/ \E sid \in SessionIds, text \in RacingTexts : Orchestrate(sid, text)
    \/ \E t \in ThreadIds, sid \in SessionIds : ConfirmBegin(t, sid)
    \/ \E t \in ThreadIds : ConfirmFunds(t)
    \/ \E t \in ThreadIds : ConfirmBlocked(t)
    \/ \E t \in ThreadIds : DebitLoad(t)
    \/ \E t \in ThreadIds : DebitStore(t)
    \/ \E t \in ThreadIds : CreditLoad(t)
    \/ \E t \in ThreadIds : CreditStore(t)
    \/ \E t \in ThreadIds : ConfirmDone(t)

SpecThreads == Init /\ [][NextThreads]_vars

(***************************************************************************)
(* parse_direction on its own: applied to every text of up to MaxWords     *)
(* words over the words its two patterns read, and to the sentence the     *)
(* specification quotes.                                                   *)
(***************************************************************************)
MaxWords == 8

DirectionWords == {"from", "to", "checking", "savings"}

DirectionTexts ==
    UNION { [1..n -> DirectionWords] : n \in 0..MaxWords }
    \cup { <<"transfer", "$25", "from", "savings", "to", "checking">> }

InitParse ==
    /\ DEMO_STATE = <<>>
    /\ uuids = 0
    /\ request \in {[endpoint |-> "parse_direction", text |-> t] : t \in DirectionTexts}
    /\ response = None
    /\ confirmed = {}
    /\ threads = [t \in ThreadIds |-> Idle]

ParseDirection ==
    /\ request.endpoint = "parse_direction"
    /\ response = None
    /\ response' = parse_direction(request.text)
    /\ UNCHANGED <<DEMO_STATE, uuids, request, confirmed, threads>>

NextParse == ParseDirection

SpecParse == InitParse /\ [][NextParse]_vars

(***************************************************************************)
(* Two sessions.  Two clients, each on a session of its own, send their    *)
(* requests in any order; their confirm_transfer requests overlap on the   *)
(* worker threads.                                                         *)
(***************************************************************************)
SessionPair == {"s1", "s2"}

\* What the client of each session types: the two clients ask for different
\* transfers.
SessionTexts ==
    [s1 |-> { <<"transfer", "$2000", "from", "checking", "to", "savings">> },
     s2 |-> { <<"transfer", "$25", "from", "savings", "to", "checking">> }]

NextSessions ==
    \/ \E sid \in SessionPair : \E text \in SessionTexts[sid] : Orchestrate(sid, text)
    \/ \E sid \in SessionPair : Action(sid, "cancel_transfer", <<>>)
    \/ \E t \in ThreadIds, sid \in SessionPair : ConfirmBegin(t, sid)
    \/ \E t \in ThreadIds : ConfirmFunds(t)
    \/ \E t \in ThreadIds : ConfirmBlocked(t)
    \/ \E t \in ThreadIds : DebitLoad(t)
    \/ \E t \in ThreadIds : DebitStore(t)
    \/ \E t \in ThreadIds : CreditLoad(t)
    \/ \E t \in ThreadIds : CreditStore(t)
    \/ \E t \in ThreadIds : ConfirmDone(t)

SpecSessions == Init /\ [][NextSessions]_vars

(***************************************************************************)
(* The two policy gates on their own: policy_check and evaluate_policy      *)
(* applied to an intent, a known source account, and amounts and balances  *)
(* on both sides of every rule.                                            *)
(***************************************************************************)
Dollars(n) == Float(FALSE, <<0, 0, 0, n>>)

\* entities["amount"]: absent, negative, zero, or a positive amount.
PolicyAmounts ==
    { None, Float(TRUE, <<0, 0, 0, 25>>), FZero, InitialBalances.checking }
    \cup { Dollars(n) : n \in {25, 100, 500, 4999, 5000, 6000, 9000} }

\* state["balances"][k].
PolicyBalances ==
    { InitialBalances.checking, InitialBalances.savings }
    \cup { Dollars(n) : n \in {0, 100, 5000, 6000} }

PolicyCalls ==
    { [endpoint |-> endpoint,
       intent |-> intent,
       entities |-> [amount |-> amount, from_account |-> from,
                     to_account |-> CHOOSE a \in ACCT : a # from],
       state |-> [balances |-> [checking |-> c, savings |-> s],
                  pending_action |-> None]] :
      endpoint \in {"policy_check", "evaluate_policy"},
      intent \in {"bank_transfer", "bank_account_summary", "unknown"},
      amount \in PolicyAmounts, from \in ACCT,
      c \in PolicyBalances, s \in PolicyBalances }

InitPolicy ==
    /\ DEMO_STATE = <<>>
    /\ uuids = 0
    /\ request \in PolicyCalls
    /\ response = None
    /\ confirmed = {}
    /\ threads = [t \in ThreadIds |-> Idle]

PolicyCheck ==
    /\ request.endpoint = "policy_check"
    /\ response = None
    /\ response' = policy_check(request.intent, request.entities, request.state)
    /\ UNCHANGED <<DEMO_STATE, uuids, request, confirmed, threads>>

EvaluatePolicy ==
    /\ request.endpoint = "evaluate_policy"
    /\ response = None
    /\ response' = evaluate_policy(request.intent, request.entities, request.state.balances)
    /\ UNCHANGED <<DEMO_STATE, uuids, request, confirmed, threads>>

NextPolicy == PolicyCheck \/ EvaluatePolicy

SpecPolicy == InitPolicy /\ [][NextPolicy]_vars

(***************************************************************************)
(* Routing on its own: a new session receives one text of up to            *)
(* MaxRouteWords words over the keywords of the insights, CD-maturity and  *)
(* transfer rules.                                                         *)
(***************************************************************************)
MaxRouteWords == 5

RouteWords ==
    {"cd", "maturity", "transfer", "send", "move", "money", "my", "show", "insights"}

RouteTexts == UNION { [1..n -> RouteWords] : n \in 0..MaxRouteWords }

InitRoute ==
    /\ DEMO_STATE = <<>>
    /\ uuids = 0
    /\ request \in {[endpoint |-> "orchestrate", session_id |-> s, text |-> t] :
                       s \in SessionIds, t \in RouteTexts}
    /\ response = None
    /\ confirmed = {}
    /\ threads = [t \in ThreadIds |-> Idle]

RouteText ==
    /\ response = None
    /\ Orchestrate(request.session_id, request.text)

NextRoute == RouteText

SpecRoute == InitRoute /\ [][NextRoute]_vars

(***************************************************************************)
(* The earlier orchestrator (main_backup.py): one kind of transfer, from   *)
(* checking to savings, offered as soon as the text writes an amount.      *)
(***************************************************************************)
backup_get_state(store, session_id) ==
    IF session_id \in DOMAIN store THEN store
    ELSE store @@ (session_id :> [balances |-> InitialBalances, last_intent |-> None,
                                  pending_action |-> None])

backup_route_intent(t) ==
    IF In("recurring", t) \/ In("subscription", t)
        THEN "bank_recurring_charges"
    ELSE IF In("account", t) /\ (In("summary", t) \/ In("balance", t))
        THEN "bank_account_summary"
    ELSE IF In("transfer", t) \/ In("send", t) \/ In("zelle", t)
        THEN "bank_transfer"
    ELSE "unknown"

\* entities is the empty dict or holds the amount.
backup_policy_check(intent, entities) ==
    IF intent = "bank_transfer"
    THEN IF "amount" \notin DOMAIN entities
            THEN [allow |-> TRUE, risk |-> "medium", reason |-> <<"Needs confirmation">>]
         ELSE IF FLe(entities.amount, FZero)
            THEN [allow |-> FALSE, risk |-> "low", reason |-> <<"Transfer amount must be > 0">>]
         ELSE [allow |-> TRUE, risk |-> "medium", reason |-> <<"Requires confirmation">>]
    ELSE [allow |-> TRUE, risk |-> "low", reason |-> <<"Allowed">>]

backup_orchestrate(store0, req, uuid4) ==
    LET sid    == req.session_id
        store  == backup_get_state(store0, sid)
        state  == store[sid]
        intent == backup_route_intent(req.text)
        amt    == parse_amount(req.text)
        entities == IF intent = "bank_transfer" /\ amt # None
                    THEN [amount |-> amt] ELSE <<>>
        policy == backup_policy_check(intent, entities)
        debug  == [intent |-> intent, entities |-> entities, policy |-> policy]
        reply(card) == [session_id |-> sid, messages |-> <<card.title>>, card |-> card,
                        debug |-> debug]
    IN  IF ~policy.allow
            THEN [store |-> store, minted |-> FALSE,
                  response |-> reply([title |-> "Action blocked", body |-> policy.reason,
                                      actions |-> <<>>])]
        ELSE IF intent = "bank_recurring_charges"
            THEN [store |-> store, minted |-> FALSE,
                  response |-> reply([title |-> "Subscriptions & Recurring Charges",
                                      body |-> <<>>, actions |-> <<>>])]
        ELSE IF intent = "bank_account_summary"
            THEN [store |-> store, minted |-> FALSE,
                  response |-> reply([title |-> "Account Summary",
                                      body |-> <<Fmt2(state.balances.checking),
                                                 Fmt2(state.balances.savings)>>,
                                      actions |-> <<>>])]
        ELSE IF intent = "bank_transfer"
            THEN IF "amount" \notin DOMAIN entities
                 THEN [store |-> store, minted |-> FALSE,
                       response |-> reply([title |-> "Transfer Money", body |-> <<>>,
                                           actions |-> <<>>])]
                 ELSE [store |-> [store EXCEPT ![sid].pending_action =
                                     [id |-> uuid4, type |-> "transfer",
                                      amount |-> entities.amount]],
                       minted |-> TRUE,
                       response |->
                           reply([title |-> "Transfer Funds",
                                  body |-> <<Fmt2(entities.amount), "checking", "savings">>,
                                  actions |->
                                      << [action_name |-> "confirm_transfer",
                                          params |-> [action_id |-> uuid4]],
                                         [action_name |-> "cancel_transfer",
                                          params |-> [action_id |-> uuid4]] >>])]
        ELSE [store |-> store, minted |-> FALSE,
              response |-> reply([title |-> "Try something else", body |-> <<>>,
                                  actions |-> <<>>])]

backup_action(store0, req) ==
    LET sid     == req.session_id
        store   == backup_get_state(store0, sid)
        state   == store[sid]
        pending == state.pending_action
    IN  IF req.action_name = "cancel_transfer"
            THEN [store |-> [store EXCEPT ![sid].pending_action = None],
                  response |-> [ok |-> TRUE, messages |-> <<"Transfer cancelled (demo).">>,
                                card |-> [title |-> "Cancelled", body |-> <<>>,
                                          actions |-> <<>>],
                                debug |-> [action |-> req.action_name]]]
        ELSE IF req.action_name = "confirm_transfer"
            THEN IF pending = None \/ pending.type # "transfer"
                    THEN [store |-> store,
                          response |-> [ok |-> FALSE,
                                        messages |-> <<"No transfer to confirm.">>]]
                 ELSE IF FLe(pending.amount, FZero)
                    THEN [store |-> store,
                          response |-> [ok |-> FALSE,
                                        messages |->
                                            <<"Transfer amount must be greater than $0.">>]]
                 ELSE LET b == [state.balances EXCEPT
                                   !.checking = FSub(@, pending.amount),
                                   !.savings = FAdd(@, pending.amount)]
                      IN  [store |-> [store EXCEPT ![sid].balances = b,
                                                   ![sid].pending_action = None],
                           response |-> [ok |-> TRUE,
                                         messages |-> <<"Transfer complete (demo). Moved",
                                                        Fmt2(pending.amount), "savings">>,
                                         card |-> [title |-> "Transfer Complete",
                                                   body |-> <<Fmt2(b.checking), Fmt2(b.savings)>>,
                                                   actions |-> <<>>],
                                         balances |-> b,
                                         debug |-> [action |-> req.action_name]]]
        ELSE [store |-> store,
              response |-> [ok |-> FALSE, messages |-> <<"Unknown action.">>,
                            debug |-> [action |-> req.action_name]]]

BackupTexts ==
    { <<"transfer", "money">>,
      <<"transfer", "$25">>,
      <<"transfer", "$0">>,
      <<"send", "$3000">>,
      <<"transfer", "$6000", "from", "checking", "to", "savings">>,
      <<"account", "summary">>,
      <<"recurring", "charges">>,
      <<"hello">> }

BackupActionNames == {"confirm_transfer", "cancel_transfer", "delete_account"}

BackupOrchestrate(sid, text) ==
    LET req == [endpoint |-> "orchestrate", session_id |-> sid, text |-> text]
    IN  \E r \in {backup_orchestrate(DEMO_STATE, req, uuids + 1)} :
        /\ r.minted => uuids < MaxTokens
        /\ DEMO_STATE' = r.store
        /\ request' = req
        /\ response' = r.response
        /\ uuids' = IF r.minted THEN uuids + 1 ELSE uuids
        /\ UNCHANGED <<confirmed, threads>>

BackupAction(sid, name, params) ==
    LET req == [endpoint |-> "action", session_id |-> sid, action_name |-> name,
                params |-> params]
    IN  \E r \in {backup_action(DEMO_STATE, req)} :
        /\ DEMO_STATE' = r.store
        /\ request' = req
        /\ response' = r.response
        /\ UNCHANGED <<uuids, confirmed, threads>>

NextBackup ==
    \/ \E sid \in SessionIds, text \in BackupTexts : BackupOrchestrate(sid, text)
    \/ \E sid \in SessionIds, name \in BackupActionNames :
          \E params \in ActionParams(name, uuids) : BackupAction(sid, name, params)

SpecBackup == Init /\ [][NextBackup]_vars

(***************************************************************************)
(* Properties                                                              *)
(***************************************************************************)
Balances(s) == DEMO_STATE[s].balances

Pending(s) == DEMO_STATE[s].pending_action

\* checking + savings as a real number (no rounding).
Total(b) == ExactAdd(b.checking, b.savings)

IsOrchestrate(req) == req.endpoint = "orchestrate"

IsActionNamed(req, name) == req.endpoint = "action" /\ req.action_name = name

\* The last request was a confirm_transfer that applied its transfer.
ConfirmSucceeded ==
    /\ IsActionNamed(request, "confirm_transfer")
    /\ response.ok

\* C1 (as claimed): in every session, checking + savings equals its value at
\* session creation, after any sequence of Orchestrate and Action calls.
C1_Conservation ==
    \A s \in DOMAIN DEMO_STATE : Total(Balances(s)) = Total(InitialBalances)

\* C2: in every reachable state every balance of every session is >= 0.
C2_NoNegativeBalances ==
    \A s \in DOMAIN DEMO_STATE :
        \A a \in ACCT : FGe(Balances(s)[a], FZero)

\* C2 witness: a confirm has just debited checking, which now holds less than
\* the starting balance.
C2_Witness ==
    /\ ConfirmSucceeded
    /\ FLt(Balances(request.session_id).checking, InitialBalances.checking)

\* The session as a request on it finds it (created when unseen).
Before(s) == get_state(DEMO_STATE, s)[s]

NoTransferToConfirm(resp) ==
    /\ resp.ok = FALSE
    /\ resp.messages = <<"No transfer to confirm.">>

\* C3 (as claimed): once a confirm_transfer carrying a minted token has applied
\* a transfer, every later confirm_transfer carrying that token on the same
\* session fails with "No transfer to confirm." and changes no balance.
C3_AtMostOnce ==
    [][ ( /\ IsActionNamed(request', "confirm_transfer")
          /\ "action_id" \in DOMAIN request'.params
          /\ request'.params.action_id \in 1..uuids
          /\ <<request'.session_id, request'.params.action_id>> \in confirmed )
        => ( /\ NoTransferToConfirm(response')
             /\ DEMO_STATE'[request'.session_id].balances
                    = DEMO_STATE[request'.session_id].balances )
      ]_vars

\* C4 (as claimed): a confirm_transfer whose action_id is missing or differs
\* from the id of the session's awaiting_confirm pending transfer is rejected
\* with "No transfer to confirm." and leaves the session as it was.
C4_TokenBinding ==
    [][ \A s \in DOMAIN DEMO_STATE :
          ( /\ IsActionNamed(request', "confirm_transfer")
            /\ request'.session_id = s
            /\ IsTransfer(Pending(s), "awaiting_confirm")
            /\ \/ "action_id" \notin DOMAIN request'.params
               \/ request'.params.action_id # Pending(s).id )
          => ( /\ NoTransferToConfirm(response')
               /\ DEMO_STATE'[s] = DEMO_STATE[s] )
      ]_vars

InsufficientFundsBlock(resp, after) ==
    /\ ~resp.debug.policy.allow
    /\ resp.debug.policy.reason[1] = "Insufficient funds in"
    /\ resp.card.title = "Transfer blocked"
    /\ after.pending_action = None

\* C5: an Orchestrate call never shows a confirmation card, nor stores an
\* awaiting_confirm transfer, for an amount above balances[from]; a text with
\* direction and amount, and an amount typed while awaiting_amount, both end in
\* the insufficient-funds block when the amount exceeds the source balance.
C5_GateOrdering ==
    [][ IsOrchestrate(request') =>
          LET s     == request'.session_id
              pre   == Before(s)
              post  == DEMO_STATE'[s]
              text  == request'.text
              amt   == parse_amount(text)
              dir   == parse_direction(text)
          IN  /\ ( \/ response'.card.title = "Confirm transfer"
                   \/ /\ IsTransfer(post.pending_action, "awaiting_confirm")
                      /\ post.pending_action # pre.pending_action )
                 => /\ IsTransfer(post.pending_action, "awaiting_confirm")
                    /\ response'.card.body = <<Fmt2(post.pending_action.amount),
                                               post.pending_action.from_account,
                                               post.pending_action.to_account>>
                    /\ FLe(post.pending_action.amount,
                           pre.balances[post.pending_action.from_account])
              /\ ( /\ IsTransfer(pre.pending_action, "awaiting_amount")
                   /\ amt # None
                   /\ FGt(amt, pre.balances[pre.pending_action.from_account]) )
                 => InsufficientFundsBlock(response', post)
              /\ ( /\ ~IsTransfer(pre.pending_action, "awaiting_amount")
                   /\ route_intent(text) = "bank_transfer"
                   /\ dir[1] # NoneStr
                   /\ amt # None
                   /\ FGt(amt, pre.balances[dir[1]]) )
                 => InsufficientFundsBlock(response', post)
      ]_vars

\* C5 witness: $3000 typed while awaiting the amount of a transfer out of
\* checking was answered by the insufficient-funds block.
C5_Witness ==
    /\ IsOrchestrate(request)
    /\ request.text = <<"$3000">>
    /\ InsufficientFundsBlock(response, DEMO_STATE[request.session_id])
    /\ response.debug.entities.from_account = "checking"

\* C6: a session's balances change only in a confirm_transfer that applies the
\* session's awaiting_confirm pending transfer, and a pending transfer becomes
\* awaiting_confirm only in an Orchestrate call of that session whose Policy
\* Gate decision, taken on the balances of that moment, allowed exactly its
\* (from_account, to_account, amount).
C6_RiskRulesFirst ==
    [][ \A s \in DOMAIN DEMO_STATE' :
          LET pre  == Before(s)
              post == DEMO_STATE'[s]
              p    == post.pending_action
              q    == pre.pending_action
          IN  /\ ( IsTransfer(p, "awaiting_confirm") /\ p # q )
                 => /\ IsOrchestrate(request')
                    /\ request'.session_id = s
                    /\ response'.debug.entities =
                          [amount |-> p.amount, from_account |-> p.from_account,
                           to_account |-> p.to_account]
                    /\ response'.debug.policy =
                          policy_check("bank_transfer", response'.debug.entities, pre)
                    /\ response'.debug.policy.allow
                    /\ response'.debug.policy.reason = <<"Requires confirmation">>
              /\ ( post.balances # pre.balances )
                 => /\ IsActionNamed(request', "confirm_transfer")
                    /\ request'.session_id = s
                    /\ IsTransfer(q, "awaiting_confirm")
                    /\ post.balances =
                          Credit(Debit(pre.balances, q.from_account, q.amount),
                                 q.to_account, q.amount)
      ]_vars

\* C6 witness: a confirm has moved money, so the balances differ from the
\* starting ones.
C6_Witness ==
    /\ ConfirmSucceeded
    /\ Balances(request.session_id) # InitialBalances

Scenario5 == <<"transfer", "$6000", "from", "checking", "to", "savings">>

\* C7: a pending transfer in awaiting_confirm has 0 < amount < 5000, and every
\* transfer whose debit and credit are applied moved such an amount.
C7_AmountRange ==
    [][ \A s \in DOMAIN DEMO_STATE' :
          LET pre  == Before(s)
              post == DEMO_STATE'[s]
          IN  /\ IsTransfer(post.pending_action, "awaiting_confirm")
                 => /\ FGt(post.pending_action.amount, FZero)
                    /\ FLt(post.pending_action.amount, StepUp)
              /\ post.balances # pre.balances
                 => /\ IsTransfer(pre.pending_action, "awaiting_confirm")
                    /\ FGt(pre.pending_action.amount, FZero)
                    /\ FLt(pre.pending_action.amount, StepUp)
      ]_vars

\* C7 witness: $5,000 out of savings, which holds more, was blocked by the
\* step-up rule.
C7_Witness ==
    /\ IsOrchestrate(request)
    /\ response.debug.entities = [amount |-> StepUp, from_account |-> "savings",
                                  to_account |-> "checking"]
    /\ ~response.debug.policy.allow
    /\ response.debug.policy.risk = "high"
    /\ Pending(request.session_id) = None

\* C8 (as claimed): on a session holding the starting balances, the text
\* "transfer $6000 from checking to savings" is blocked with risk high and the
\* additional-verification reason, and no pending transfer exists afterwards.
C8_Scenario5 ==
    ( /\ IsOrchestrate(request)
      /\ request.text = Scenario5
      /\ Balances(request.session_id) = InitialBalances )
    => /\ ~response.debug.policy.allow
       /\ response.debug.policy.risk = "high"
       /\ response.debug.policy.reason =
             <<"For safety, transfers above $5,000 require additional verification.">>
       /\ Pending(request.session_id) = None

\* C8 (amended): on a session holding the starting balances that text is
\* blocked and no pending transfer exists afterwards; the decision is risk low,
\* "Insufficient funds in Checking. Available: $2450.12", the funds rule coming
\* before the step-up rule.  Only when the session was awaiting the amount of a
\* transfer out of savings (the stored direction is used, not the text's) is
\* the decision the step-up block with risk high.
C8_Scenario5Amended ==
    ( /\ IsOrchestrate(request)
      /\ request.text = Scenario5
      /\ Balances(request.session_id) = InitialBalances )
    => /\ ~response.debug.policy.allow
       /\ response.card.title = "Transfer blocked"
       /\ Pending(request.session_id) = None
       /\ response.debug.entities.amount = AmountLiterals["$6000"]
       /\ response.debug.entities.from_account = "checking"
          => /\ response.debug.policy.risk = "low"
             /\ response.debug.policy.reason =
                   <<"Insufficient funds in", "checking", "Available:", 245012>>
       /\ response.debug.entities.from_account = "savings"
          => /\ response.debug.policy.risk = "high"
             /\ response.debug.policy.reason =
                   <<"For safety, transfers above $5,000 require additional verification.">>

\* C8 witness: the text of scenario 5 was sent to a session holding the
\* starting balances, with checking as the source.
C8_Witness ==
    /\ IsOrchestrate(request)
    /\ request.text = Scenario5
    /\ Balances(request.session_id) = InitialBalances
    /\ response.debug.entities.from_account = "checking"
    /\ response.debug.policy.risk = "low"

\* C9: when the Policy Gate denies a transfer in an Orchestrate call the
\* session has no pending transfer afterwards, and a confirm_transfer sent next
\* on the session fails and changes nothing.
C9_BlockIsTerminal ==
    [][ /\ ( IsOrchestrate(request') /\ ~response'.debug.policy.allow )
           => DEMO_STATE'[request'.session_id].pending_action = None
        /\ ( /\ IsOrchestrate(request) /\ ~response.debug.policy.allow
             /\ IsActionNamed(request', "confirm_transfer")
             /\ request'.session_id = request.session_id )
           => /\ NoTransferToConfirm(response')
              /\ DEMO_STATE' = DEMO_STATE
      ]_vars

\* C9 witness: "send $3000 from checking to savings" was denied by the gate
\* and the session is left without a pending transfer.
C9_Witness ==
    /\ IsOrchestrate(request)
    /\ request.text = <<"send", "$3000", "from", "checking", "to", "savings">>
    /\ ~response.debug.policy.allow
    /\ Pending(request.session_id) = None

\* C10 (as claimed): with an awaiting_confirm pending transfer whose amount is
\* at most balances[from_account], confirm_transfer (carrying its token) lowers
\* balances[from_account] by exactly amount, raises balances[to_account] by
\* exactly amount, clears the pending transfer and returns ok with the updated
\* balances.
C10_SuccessfulConfirm ==
    [][ \A s \in DOMAIN DEMO_STATE :
          LET p == Pending(s)
              b == Balances(s)
              after == DEMO_STATE'[s]
          IN  ( /\ IsActionNamed(request', "confirm_transfer")
                /\ request'.session_id = s
                /\ IsTransfer(p, "awaiting_confirm")
                /\ "action_id" \in DOMAIN request'.params
                /\ request'.params.action_id = p.id
                /\ FLe(p.amount, b[p.from_account]) )
              => /\ ExactAdd(after.balances[p.from_account], p.amount) = b[p.from_account]
                 /\ ExactAdd(b[p.to_account], p.amount) = after.balances[p.to_account]
                 /\ after.pending_action = None
                 /\ response'.ok
                 /\ response'.balances = after.balances
      ]_vars

\* The pending transfer is absent or still collecting its direction or amount.
NotConfirmable(pending) ==
    \/ pending = None
    \/ IsTransfer(pending, "awaiting_direction")
    \/ IsTransfer(pending, "awaiting_amount")

\* C11: a confirm_transfer on a session with no pending transfer, or with one
\* in awaiting_direction or awaiting_amount, answers ok=false, "No transfer to
\* confirm.", and leaves the balances and the pending transfer as they were.
C11_NothingToConfirm ==
    [][ \A s \in SessionIds :
          ( /\ IsActionNamed(request', "confirm_transfer")
            /\ request'.session_id = s
            /\ NotConfirmable(Before(s).pending_action) )
          => /\ NoTransferToConfirm(response')
             /\ DEMO_STATE'[s] = Before(s)
      ]_vars

\* C11 witness: a confirm_transfer was refused while the session was awaiting
\* the amount, and the session is still awaiting it.
C11_Witness ==
    /\ IsActionNamed(request, "confirm_transfer")
    /\ NoTransferToConfirm(response)
    /\ IsTransfer(Pending(request.session_id), "awaiting_amount")

\* C12: a confirm_transfer that finds the pending amount above the balance of
\* the source account held at that moment answers ok=false, "Insufficient
\* funds", changes no balance, and drops the pending transfer.
C12_ExecutionTimeCheck ==
    [][ \A t \in ThreadIds :
          LET th  == threads[t]
              sid == th.req.session_id
          IN  /\ ( /\ th.pc = "funds"
                   /\ threads'[t] # th
                   /\ FGt(th.pending.amount,
                          DEMO_STATE[sid].balances[th.pending.from_account]) )
                 => /\ threads'[t].pc = "blocked"
                    /\ DEMO_STATE' = DEMO_STATE
              /\ ( th.pc = "blocked" /\ threads'[t] # th )
                 => /\ request' = th.req
                    /\ response'.ok = FALSE
                    /\ response'.messages = <<"Insufficient funds in", th.pending.from_account>>
                    /\ DEMO_STATE'[sid].balances = DEMO_STATE[sid].balances
                    /\ DEMO_STATE'[sid].pending_action = None
                    /\ threads'[t] = Idle
      ]_vars

\* C12 witness: a confirm_transfer has just failed on the funds, its amount
\* being above the balance its source account holds.
C12_Witness ==
    /\ IsActionNamed(request, "confirm_transfer")
    /\ response.ok = FALSE
    /\ response.messages[1] = "Insufficient funds in"
    /\ Pending(request.session_id) = None
    /\ FLt(Balances(request.session_id).checking, AmountLiterals["$2000"])

\* C13: cancel_transfer answers ok=true and leaves the session with no pending
\* transfer and its balances untouched, whatever was pending and whatever
\* action_id it carries; the same cancel applied again answers ok=true and
\* leaves the session state as the first one left it.
C13_IdempotentCancel ==
    [][ \A s \in SessionIds :
          ( IsActionNamed(request', "cancel_transfer") /\ request'.session_id = s )
          => LET again == action(DEMO_STATE', request')
             IN  /\ response'.ok
                 /\ DEMO_STATE'[s].pending_action = None
                 /\ DEMO_STATE'[s].balances = Before(s).balances
                 /\ again.response.ok
                 /\ again.store = DEMO_STATE'
      ]_vars

\* C13 witness: a cancel_transfer without action_id was accepted on a session
\* whose only offer was never confirmed.
C13_Witness ==
    /\ IsActionNamed(request, "cancel_transfer")
    /\ request.params = <<>>
    /\ response.ok
    /\ uuids = 1
    /\ confirmed = {}
    /\ Balances(request.session_id) = InitialBalances
    /\ Pending(request.session_id) = None

\* The (from_account, to_account) pairs a card's transfer_set_direction
\* buttons offer.
DirectionChoices(card) ==
    { <<card.actions[i].params.from_account, card.actions[i].params.to_account>> :
        i \in {j \in 1..Len(card.actions) :
                  card.actions[j].action_name = "transfer_set_direction"} }

\* C14: a text of transfer intent arriving at a session with no pending
\* transfer gives: no direction and no amount -> awaiting_direction without
\* hint and a card with the two direction choices; amount only ->
\* awaiting_direction with that amount as hint; direction only ->
\* awaiting_amount with that direction; both -> the gate decides:
\* awaiting_confirm with that direction, amount and a newly minted token when
\* it allows, no pending transfer when it blocks.
C14_FromNoPending ==
    [][ \A s \in SessionIds :
          LET pre  == Before(s)
              post == DEMO_STATE'[s]
              text == request'.text
              dir  == parse_direction(text)
              amt  == parse_amount(text)
              known == dir[1] # NoneStr /\ dir[2] # NoneStr
              gate == response'.debug.policy
          IN  ( /\ IsOrchestrate(request')
                /\ request'.session_id = s
                /\ pre.pending_action = None
                /\ route_intent(text) = "bank_transfer" )
              => /\ ( ~known /\ amt = None )
                    => /\ post.pending_action =
                             [type |-> "transfer", stage |-> "awaiting_direction"]
                       /\ DirectionChoices(response'.card) =
                             {<<"checking", "savings">>, <<"savings", "checking">>}
                 /\ ( ~known /\ amt # None )
                    => post.pending_action =
                          [type |-> "transfer", stage |-> "awaiting_direction",
                           amount_hint |-> amt]
                 /\ ( known /\ amt = None )
                    => post.pending_action =
                          [type |-> "transfer", stage |-> "awaiting_amount",
                           from_account |-> dir[1], to_account |-> dir[2]]
                 /\ ( known /\ amt # None )
                    => /\ gate = policy_check("bank_transfer",
                                     [amount |-> amt, from_account |-> dir[1],
                                      to_account |-> dir[2]], pre)
                       /\ gate.allow
                          => /\ uuids' = uuids + 1
                             /\ post.pending_action =
                                   [id |-> uuids', type |-> "transfer",
                                    stage |-> "awaiting_confirm",
                                    from_account |-> dir[1], to_account |-> dir[2],
                                    amount |-> amt]
                             /\ response'.card.actions[1] =
                                   [action_name |-> "confirm_transfer",
                                    params |-> [action_id |-> uuids']]
                       /\ ~gate.allow => post.pending_action = None
                 /\ post.balances = pre.balances
      ]_vars

\* C14 witness: "transfer $25" left the session awaiting the direction with
\* 25 as its hint, no token having been minted.
C14_Witness ==
    /\ IsOrchestrate(request)
    /\ request.text = <<"transfer", "$25">>
    /\ Pending(request.session_id) =
          [type |-> "transfer", stage |-> "awaiting_direction",
           amount_hint |-> AmountLiterals["$25"]]
    /\ DirectionChoices(response.card) =
          {<<"checking", "savings">>, <<"savings", "checking">>}
    /\ uuids = 0

\* C15: while a session is awaiting_amount, a text with an amount has the gate
\* decide on the stored direction and that amount: allowed -> awaiting_confirm
\* with the stored accounts, that amount and a token no earlier offer carried,
\* the confirm card showing the amount; blocked -> no pending transfer.
C15_AmountTyped ==
    [][ \A s \in SessionIds :
          LET pre  == Before(s)
              post == DEMO_STATE'[s]
              p    == pre.pending_action
              amt  == parse_amount(request'.text)
              gate == response'.debug.policy
          IN  ( /\ IsOrchestrate(request')
                /\ request'.session_id = s
                /\ IsTransfer(p, "awaiting_amount")
                /\ amt # None )
              => /\ gate = policy_check("bank_transfer",
                               [amount |-> amt, from_account |-> p.from_account,
                                to_account |-> p.to_account], pre)
                 /\ gate.allow
                    => /\ uuids' \notin 0..uuids
                       /\ post.pending_action =
                             [id |-> uuids', type |-> "transfer",
                              stage |-> "awaiting_confirm",
                              from_account |-> p.from_account,
                              to_account |-> p.to_account, amount |-> amt]
                       /\ response'.card.title = "Confirm transfer"
                       /\ response'.card.body =
                             <<Fmt2(amt), p.from_account, p.to_account>>
                       /\ response'.card.actions[1].params.action_id = uuids'
                 /\ ~gate.allow => post.pending_action = None
                 /\ post.balances = pre.balances
      ]_vars

\* C15 witness: "$25" typed after checking -> savings was chosen put the
\* session in awaiting_confirm, the card showing 25.00.
C15_Witness ==
    /\ IsOrchestrate(request)
    /\ request.text = <<"$25">>
    /\ IsTransfer(Pending(request.session_id), "awaiting_confirm")
    /\ Pending(request.session_id).from_account = "checking"
    /\ Pending(request.session_id).to_account = "savings"
    /\ Pending(request.session_id).amount = AmountLiterals["$25"]
    /\ Pending(request.session_id).id = uuids
    /\ response.card.body = <<2500, "checking", "savings">>
    /\ Balances(request.session_id) = InitialBalances

\* C16: while a session is awaiting_amount, a text with no amount in it leaves
\* the pending transfer and the balances as they were and is answered by the
\* ask-amount prompt for the stored direction, whatever intent it routes to.
C16_NoAmountTyped ==
    [][ \A s \in SessionIds :
          LET pre == Before(s)
              p   == pre.pending_action
          IN  ( /\ IsOrchestrate(request')
                /\ request'.session_id = s
                /\ IsTransfer(p, "awaiting_amount")
                /\ parse_amount(request'.text) = None )
              => /\ DEMO_STATE'[s] = pre
                 /\ response'.messages = <<"How much would you like to transfer?">>
                 /\ response'.card.title = "Transfer amount"
                 /\ response'.card.body = <<p.from_account, p.to_account>>
                 /\ uuids' = uuids
      ]_vars

\* C16 witness: "account summary", which routes to the summary, was answered
\* by the ask-amount prompt and the session is still awaiting the amount.
C16_Witness ==
    /\ IsOrchestrate(request)
    /\ request.text = <<"account", "summary">>
    /\ route_intent(request.text) = "bank_account_summary"
    /\ response.card.title = "Transfer amount"
    /\ IsTransfer(Pending(request.session_id), "awaiting_amount")

\* The store as the request finds it, but with no pending transfer on s.
WithoutPending(s) ==
    [get_state(DEMO_STATE, s) EXCEPT ![s].pending_action = None]

\* The last step was an Orchestrate on s whose result, session and response,
\* is the one its text alone gives on a session with no pending transfer, and
\* a token it stores is not the one of the transfer it replaces.
Overwrites(s) ==
    LET alone == orchestrate(WithoutPending(s), request', uuids + 1)
        old   == Before(s).pending_action
        new   == DEMO_STATE'[s].pending_action
    IN  /\ DEMO_STATE'[s] = alone.store[s]
        /\ response' = alone.response
        /\ ( IsTransfer(old, "awaiting_confirm") /\ IsTransfer(new, "awaiting_confirm") )
           => new.id # old.id

TransferTextOn(s, stages) ==
    /\ IsOrchestrate(request')
    /\ request'.session_id = s
    /\ route_intent(request'.text) = "bank_transfer"
    /\ \E stage \in stages : IsTransfer(Before(s).pending_action, stage)

\* C17 (as claimed): a text of transfer intent arriving while a pending
\* transfer is active, in whichever stage, replaces it by what the text alone
\* produces from no pending transfer; no slot of the old one survives.
C17_Overwrite ==
    [][ \A s \in SessionIds :
          TransferTextOn(s, {"awaiting_direction", "awaiting_amount", "awaiting_confirm"})
          => Overwrites(s)
      ]_vars

\* C17 (amended): that holds while the pending transfer is awaiting_direction
\* or awaiting_confirm.  While it is awaiting_amount the text is read as the
\* reply to the amount prompt: the pending transfer afterwards is none (gate
\* block) or still carries the stored from_account and to_account, whatever
\* direction the text names.
C17_OverwriteAmended ==
    [][ \A s \in SessionIds :
          LET old == Before(s).pending_action
              new == DEMO_STATE'[s].pending_action
          IN  /\ TransferTextOn(s, {"awaiting_direction", "awaiting_confirm"})
                 => Overwrites(s)
              /\ TransferTextOn(s, {"awaiting_amount"})
                 => \/ new = None
                    \/ /\ new.from_account = old.from_account
                       /\ new.to_account = old.to_account
                       /\ new.stage \in {"awaiting_amount", "awaiting_confirm"}
      ]_vars

\* C17 witness: "transfer $148.63 from savings to checking" was typed while
\* the session awaited the amount of a transfer from checking to savings, and
\* the offer to confirm is for checking to savings.
C17_Witness ==
    /\ IsOrchestrate(request)
    /\ request.text = <<"transfer", "$148.63", "from", "savings", "to", "checking">>
    /\ IsTransfer(Pending(request.session_id), "awaiting_confirm")
    /\ Pending(request.session_id).from_account = "checking"
    /\ Pending(request.session_id).to_account = "savings"

\* C18: transfer_set_direction with two distinct accounts of ACCT, on a session
\* in awaiting_direction, puts it in awaiting_amount with exactly those
\* accounts; when the replaced pending transfer carried an amount_hint, the
\* amount prompt it answers with mentions that amount as the suggestion.
C18_ChooseDirection ==
    [][ \A s \in SessionIds :
          LET pre  == Before(s)
              old  == pre.pending_action
              prm  == request'.params
          IN  ( /\ IsActionNamed(request', "transfer_set_direction")
                /\ request'.session_id = s
                /\ IsTransfer(old, "awaiting_direction")
                /\ DOMAIN prm = {"from_account", "to_account"}
                /\ prm.from_account \in ACCT
                /\ prm.to_account \in ACCT
                /\ prm.from_account # prm.to_account )
              => /\ response'.ok
                 /\ DEMO_STATE'[s].pending_action =
                       [type |-> "transfer", stage |-> "awaiting_amount",
                        from_account |-> prm.from_account,
                        to_account |-> prm.to_account]
                 /\ DEMO_STATE'[s].balances = pre.balances
                 /\ response'.card.title = "Transfer amount"
                 /\ response'.card.body = <<prm.from_account, prm.to_account>>
                 /\ response'.messages =
                       IF "amount_hint" \in DOMAIN old
                       THEN <<"Great", prm.from_account, prm.to_account,
                              "You mentioned", Fmt2(old.amount_hint)>>
                       ELSE <<"Great", prm.from_account, prm.to_account,
                              "How much would you like to transfer?">>
      ]_vars

\* C18 witness: savings -> checking was chosen after "transfer $25", and the
\* amount prompt mentions 25.00.
C18_Witness ==
    /\ IsActionNamed(request, "transfer_set_direction")
    /\ response.ok
    /\ response.messages = <<"Great", "savings", "checking", "You mentioned", 2500>>
    /\ Pending(request.session_id) =
          [type |-> "transfer", stage |-> "awaiting_amount",
           from_account |-> "savings", to_account |-> "checking"]

\* C19 (as claimed): in every reachable state a pending transfer that carries a
\* direction has from_account # to_account.
C19_DistinctAccounts ==
    \A s \in DOMAIN DEMO_STATE :
        ( Pending(s) # None /\ "from_account" \in DOMAIN Pending(s) )
        => Pending(s).from_account # Pending(s).to_account

\* The positions of text where the words "from A to B" stand, A, B accounts.
ExplicitPhrases(text) ==
    { i \in 1..Len(text) - 3 :
        /\ text[i] = "from"
        /\ text[i + 1] \in {"checking", "savings"}
        /\ text[i + 2] = "to"
        /\ text[i + 3] \in {"checking", "savings"} }

\* The positions of text where the words "X to Y" stand, X, Y accounts.
LoosePhrases(text) ==
    { i \in 1..Len(text) - 2 :
        /\ text[i] \in {"checking", "savings"}
        /\ text[i + 1] = "to"
        /\ text[i + 2] \in {"checking", "savings"} }

\* C20: for a text that contains the words "from A to B", A and B accounts,
\* parse_direction returns the (A, B) of the first such phrase, also when a
\* looser "X to Y" with another pair stands elsewhere in the text, earlier
\* included.
C20_DirectionPreference ==
    ( /\ request.endpoint = "parse_direction"
      /\ response # None
      /\ ExplicitPhrases(request.text) # {} )
    => LET text  == request.text
           first == CHOOSE i \in ExplicitPhrases(text) :
                        \A j \in ExplicitPhrases(text) : i <= j
       IN  response = <<text[first + 1], text[first + 3]>>

\* C20 witness: a text whose looser "checking to savings" stands before its
\* "from savings to checking" was parsed as (savings, checking).
C20_Witness ==
    /\ request.endpoint = "parse_direction"
    /\ response = <<"savings", "checking">>
    /\ \E i \in ExplicitPhrases(request.text), j \in LoosePhrases(request.text) :
          /\ j + 2 < i
          /\ request.text[j] = "checking"
          /\ request.text[j + 2] = "savings"
          /\ request.text[i + 1] = "savings"

\* A request whose handler only reads the session: an action other than the
\* three of the transfer wizard, or a text with no amount in it that routes to
\* an intent other than the transfer.
ReadsOnly(req) ==
    \/ /\ req.endpoint = "action"
       /\ req.action_name \notin {"transfer_set_direction", "cancel_transfer",
                                  "confirm_transfer"}
    \/ /\ req.endpoint = "orchestrate"
       /\ route_intent(req.text) # "bank_transfer"
       /\ parse_amount(req.text) = None

\* C21: the first Orchestrate or Action call that names an unseen session id
\* creates the session with the starting balances and no pending transfer
\* (which the handler then works on); a later call finds the session as the
\* call before left it: the session is never removed and a call that only
\* reads leaves its balances and pending transfer as they were.
C21_GetOrCreate ==
    [][ \A s \in SessionIds :
          ( request'.endpoint \in {"orchestrate", "action"} /\ request'.session_id = s )
          => /\ s \in DOMAIN DEMO_STATE'
             /\ DOMAIN DEMO_STATE \subseteq DOMAIN DEMO_STATE'
             /\ s \notin DOMAIN DEMO_STATE
                => LET created == DEMO_STATE @@
                                    (s :> [balances |-> [checking |-> InitialBalances.checking,
                                                         savings |-> InitialBalances.savings],
                                           pending_action |-> None])
                   IN  /\ DEMO_STATE'[s].balances = InitialBalances
                       /\ ReadsOnly(request') => DEMO_STATE' = created
                       /\ IsOrchestrate(request')
                          => DEMO_STATE' = orchestrate(created, request', uuids + 1).store
                       /\ request'.endpoint = "action"
                          => DEMO_STATE' = action(created, request').store
             /\ s \in DOMAIN DEMO_STATE
                => ( ReadsOnly(request') => DEMO_STATE'[s] = DEMO_STATE[s] )
      ]_vars

\* C21 witness: an insight was opened on a session whose balances a transfer
\* had changed and which holds a pending transfer; both are still there.
C21_Witness ==
    /\ IsActionNamed(request, "insight_view")
    /\ Balances(request.session_id) # InitialBalances
    /\ Pending(request.session_id) # None

\* The slots a pending transfer carries, by stage.
WellFormedPending(p) ==
    \/ p = None
    \/ /\ {"type", "stage"} \subseteq DOMAIN p
       /\ p.type = "transfer"
       /\ \/ /\ p.stage = "awaiting_direction"
             /\ \/ DOMAIN p = {"type", "stage"}
                \/ /\ DOMAIN p = {"type", "stage", "amount_hint"}
                   /\ p.amount_hint # None
          \/ /\ p.stage = "awaiting_amount"
             /\ DOMAIN p = {"type", "stage", "from_account", "to_account"}
             /\ p.from_account \in ACCT
             /\ p.to_account \in ACCT
          \/ /\ p.stage = "awaiting_confirm"
             /\ DOMAIN p = {"id", "type", "stage", "from_account", "to_account", "amount"}
             /\ p.from_account \in ACCT
             /\ p.to_account \in ACCT
             /\ p.amount # None
             /\ p.id \in 1..uuids

\* C22: after any sequence of requests, failed ones included, every session
\* holds its two balances and one pending action that is none or a transfer in
\* one of the three stages: both accounts present in awaiting_amount and
\* awaiting_confirm, amount and token present exactly in awaiting_confirm, an
\* amount_hint only in awaiting_direction.
C22_WellFormed ==
    \A s \in DOMAIN DEMO_STATE :
        /\ DOMAIN DEMO_STATE[s] = {"balances", "pending_action"}
        /\ DOMAIN Balances(s) = ACCT
        /\ WellFormedPending(Pending(s))

\* C22 witness: a failed request (a direction with an unknown account) has
\* left a session that awaits a direction with an amount hint.
C22_Witness ==
    /\ IsActionNamed(request, "transfer_set_direction")
    /\ response.ok = FALSE
    /\ IsTransfer(Pending(request.session_id), "awaiting_direction")
    /\ "amount_hint" \in DOMAIN Pending(request.session_id)

\* C23: a session's balances change only in a confirm_transfer that answers
\* ok=true: every Orchestrate call and every other Action (set direction,
\* cancel, failed confirm, insight and agent actions, unknown actions) leaves
\* both balances as they were.
C23_OnlyConfirmMovesMoney ==
    [][ \A s \in DOMAIN DEMO_STATE :
          ~( /\ IsActionNamed(request', "confirm_transfer")
             /\ request'.session_id = s
             /\ response'.ok )
          => /\ DEMO_STATE'[s].balances.checking = DEMO_STATE[s].balances.checking
             /\ DEMO_STATE'[s].balances.savings = DEMO_STATE[s].balances.savings
      ]_vars

\* C23 witness: a cancel_transfer was handled on a session whose balances an
\* earlier confirm had changed, with a new transfer offered since.
C23_Witness ==
    /\ IsActionNamed(request, "cancel_transfer")
    /\ Balances(request.session_id) # InitialBalances
    /\ uuids = 2
    /\ Cardinality(confirmed) = 1

\* The last step was an Orchestrate on s that left its pending action alone.
KeepsPending(s) ==
    DEMO_STATE'[s].pending_action = DEMO_STATE[s].pending_action

RoutedElsewhere(s) ==
    /\ IsOrchestrate(request')
    /\ request'.session_id = s
    /\ route_intent(request'.text) # "bank_transfer"

\* C24 (as claimed): an Orchestrate call whose text routes to an intent other
\* than the transfer never changes the session's pending action, whatever its
\* stage.
C24_NonTransferKeepsPending ==
    [][ \A s \in DOMAIN DEMO_STATE : RoutedElsewhere(s) => KeepsPending(s) ]_vars

\* C24 (amended): such a call leaves the pending action alone unless the
\* session is awaiting_amount and the text holds an amount; then the text is
\* the reply to the amount prompt and the pending action becomes
\* awaiting_confirm for the stored direction, or none when the gate blocks.
C24_NonTransferAmended ==
    [][ \A s \in DOMAIN DEMO_STATE :
          LET old == DEMO_STATE[s].pending_action
              new == DEMO_STATE'[s].pending_action
              reply == /\ IsTransfer(old, "awaiting_amount")
                       /\ parse_amount(request'.text) # None
          IN  RoutedElsewhere(s)
              => /\ ~reply => KeepsPending(s)
                 /\ reply => \/ new = None
                             \/ /\ IsTransfer(new, "awaiting_confirm")
                                /\ new.from_account = old.from_account
                                /\ new.to_account = old.to_account
                                /\ new.amount = parse_amount(request'.text)
      ]_vars

\* C24 witness: "account summary" was answered with the summary while a
\* transfer is awaiting its confirmation, and the transfer is still pending.
C24_Witness ==
    /\ IsOrchestrate(request)
    /\ request.text = <<"account", "summary">>
    /\ response.card.title = "Account Summary"
    /\ IsTransfer(Pending(request.session_id), "awaiting_confirm")

\* The thread t returns from its confirm_transfer in this step.
Returns(t) == threads[t] # Idle /\ threads'[t] = Idle

\* C25 (as claimed): when two confirm_transfer requests for one
\* awaiting_confirm transfer overlap, its debit and credit are applied at most
\* once, the request that comes second fails, and no balance becomes negative:
\* no request that got past the stage test returns after the transfer of its
\* token was applied by the other one, and every balance stays >= 0.
C25_DoubleTap ==
    [][ /\ \A t \in ThreadIds :
              Returns(t) => <<threads[t].req.session_id, threads[t].pending.id>> \notin confirmed
        /\ \A s \in DOMAIN DEMO_STATE' :
              \A a \in ACCT : FGe(DEMO_STATE'[s].balances[a], FZero)
      ]_vars

\* C26 (as claimed): an account summary requested while a confirm_transfer is
\* being executed never shows the debit without the credit: the two balances
\* it shows add up to the total of the starting balances.
C26_AtomicTransfer ==
    [][ ( IsOrchestrate(request') /\ response'.card.title = "Account Summary" )
        => response'.card.body[1] + response'.card.body[2]
              = Fmt2(InitialBalances.checking) + Fmt2(InitialBalances.savings)
      ]_vars

\* C27 (as claimed): two overlapping requests on one session leave the
\* balances and the pending action that one of their two orders leaves.  A
\* confirm_transfer that has executed a transfer therefore clears no other
\* transfer than that one: run after a new transfer message it would have
\* executed the new one, run before it the new one would still be pending.
C27_Serialised ==
    [][ \A t \in ThreadIds :
          LET th  == threads[t]
              now == DEMO_STATE[th.req.session_id].pending_action
          IN  ( th.pc = "done" /\ Returns(t) /\ now # None )
              => /\ IsTransfer(now, "awaiting_confirm")
                 /\ now.from_account = th.pending.from_account
                 /\ now.to_account = th.pending.to_account
                 /\ now.amount = th.pending.amount
      ]_vars

\* The session whose request takes the step: the session of the worker thread
\* that moves, or of the request handled whole.
ActingSession ==
    IF \E t \in ThreadIds : threads'[t] # threads[t]
    THEN LET t == CHOOSE u \in ThreadIds : threads'[u] # threads[u]
         IN  IF threads[t] # Idle THEN threads[t].req.session_id
             ELSE threads'[t].req.session_id
    ELSE request'.session_id

\* The transfer the client of a session asks for.
OwnTransfer(sid) ==
    LET text == CHOOSE x \in SessionTexts[sid] : TRUE
        dir  == parse_direction(text)
    IN  [from_account |-> dir[1], to_account |-> dir[2], amount |-> parse_amount(text)]

\* C28: a step of a request on session A leaves every other session B as it
\* was (its balances, its pending transfer, and whether it exists), whatever
\* the interleaving of the requests of the two sessions; and a confirm on A
\* executes only a transfer that was offered on A.
C28_SessionIndependence ==
    [][ /\ \A B \in SessionPair \ {ActingSession} :
              /\ B \in DOMAIN DEMO_STATE' <=> B \in DOMAIN DEMO_STATE
              /\ B \in DOMAIN DEMO_STATE => DEMO_STATE'[B] = DEMO_STATE[B]
        /\ \A t \in ThreadIds :
              threads'[t] # Idle
              => LET p == threads'[t].pending
                     own == OwnTransfer(threads'[t].req.session_id)
                 IN  /\ p.from_account = own.from_account
                     /\ p.to_account = own.to_account
                     /\ p.amount = own.amount
      ]_vars

\* C28 witness: confirms of both sessions are in flight at once, one of them
\* between its debit and its credit, while the other session holds an offer.
C28_Witness ==
    /\ threads["t1"] # Idle
    /\ threads["t2"] # Idle
    /\ threads["t1"].req.session_id # threads["t2"].req.session_id
    /\ threads["t1"].pc = "credit"
    /\ Balances(threads["t2"].req.session_id) = InitialBalances
    /\ Pending(threads["t2"].req.session_id) # None

\* The result of sending an action of a card back, unchanged, as the next
\* Action call on the session.
SentBack(sid, a) ==
    action(DEMO_STATE, [endpoint |-> "action", session_id |-> sid,
                        action_name |-> a.action_name, params |-> a.params])

\* C29: the actions of the last response's transfer card are accepted when
\* sent back as the next Action call: the direction card offers two different
\* transfer_set_direction choices over distinct valid accounts, each accepted
\* and stored; the confirmation card offers confirm_transfer and
\* cancel_transfer carrying the token of the session's awaiting_confirm
\* pending transfer, the cancel is accepted, and the confirm is accepted and
\* applies the amount and the accounts written on the card.
C29_CardActionsRoundTrip ==
    ( response # None /\ "card" \in DOMAIN response /\ "session_id" \in DOMAIN request )
    => LET sid  == request.session_id
           card == response.card
       IN  /\ card.title = "Transfer money between your accounts"
              => /\ Len(card.actions) = 2
                 /\ card.actions[1].params # card.actions[2].params
                 /\ \A i \in 1..2 :
                       LET a == card.actions[i]
                           r == SentBack(sid, a)
                       IN  /\ a.action_name = "transfer_set_direction"
                           /\ DOMAIN a.params = {"from_account", "to_account"}
                           /\ a.params.from_account \in {"checking", "savings"}
                           /\ a.params.to_account \in {"checking", "savings"}
                           /\ a.params.from_account # a.params.to_account
                           /\ r.response.ok
                           /\ IsTransfer(r.store[sid].pending_action, "awaiting_amount")
                           /\ r.store[sid].pending_action.from_account = a.params.from_account
                           /\ r.store[sid].pending_action.to_account = a.params.to_account
           /\ card.title = "Confirm transfer"
              => LET confirm == card.actions[1]
                     cancel  == card.actions[2]
                     p       == Pending(sid)
                     done    == SentBack(sid, confirm)
                     undone  == SentBack(sid, cancel)
                 IN  /\ Len(card.actions) = 2
                     /\ confirm.action_name = "confirm_transfer"
                     /\ cancel.action_name = "cancel_transfer"
                     /\ IsTransfer(p, "awaiting_confirm")
                     /\ confirm.params = [action_id |-> p.id]
                     /\ cancel.params = [action_id |-> p.id]
                     /\ done.response.ok
                     /\ done.applied # None
                     /\ card.body = <<Fmt2(done.applied.amount), done.applied.from_account,
                                      done.applied.to_account>>
                     /\ done.store[sid].balances =
                           Credit(Debit(Balances(sid), card.body[2], done.applied.amount),
                                  card.body[3], done.applied.amount)
                     /\ done.store[sid].pending_action = None
                     /\ undone.response.ok
                     /\ undone.store[sid].pending_action = None
                     /\ undone.store[sid].balances = Balances(sid)

\* C29 witness: a confirmation card for $148.63 out of savings is on show, its
\* confirm button carries the token of the pending transfer and is accepted.
C29_Witness ==
    /\ IsOrchestrate(request)
    /\ response.card.title = "Confirm transfer"
    /\ response.card.body = <<14863, "savings", "checking">>
    /\ response.card.actions[1].params.action_id = Pending(request.session_id).id
    /\ SentBack(request.session_id, response.card.actions[1]).response.ok

\* The decision policy_check returned for a transfer.
Decided == request.endpoint = "policy_check" /\ request.intent = "bank_transfer"
           /\ response # None

\* C30: for a transfer with a known source account the decision is the one of
\* the first rule that matches: no amount -> allow; amount <= 0 -> block, risk
\* low; amount > balances[from] -> block, risk low, the reason citing the
\* balance to two decimals; amount >= 5000 -> block, risk high; otherwise
\* allow, risk medium, "Requires confirmation".  An amount above the balance
\* and at least 5000 gets the insufficient-funds decision, an amount equal to
\* the balance and below 5000 is allowed, and balance 100 with amount 500 is
\* blocked citing 100.00.
C30_PolicyGate ==
    Decided
    => LET amount == request.entities.amount
           from   == request.entities.from_account
           bal    == request.state.balances[from]
           funds  == [allow |-> FALSE, risk |-> "low",
                      reason |-> <<"Insufficient funds in", from, "Available:", Fmt2(bal)>>]
       IN  /\ from \in {"checking", "savings"}
           /\ IF amount = None THEN response.allow
              ELSE IF FLe(amount, FZero) THEN ~response.allow /\ response.risk = "low"
              ELSE IF FGt(amount, bal) THEN response = funds
              ELSE IF FGe(amount, Dollars(5000))
                   THEN ~response.allow /\ response.risk = "high"
              ELSE /\ response.allow
                   /\ response.risk = "medium"
                   /\ response.reason = <<"Requires confirmation">>
           /\ ( amount # None /\ FGt(amount, bal) /\ FGe(amount, Dollars(5000)) )
              => response = funds
           /\ ( amount # None /\ FGt(amount, FZero) /\ amount = bal
                /\ FLt(amount, Dollars(5000)) )
              => response.allow
           /\ ( amount = Dollars(500) /\ bal = Dollars(100) )
              => /\ ~response.allow
                 /\ response.risk = "low"
                 /\ response.reason[4] = 10000

\* C30 witness: $6000 out of an account holding $100.00 was decided: above the
\* balance and above the step-up limit at once.
C30_Witness ==
    /\ Decided
    /\ request.entities.amount = Dollars(6000)
    /\ request.state.balances[request.entities.from_account] = Dollars(100)
    /\ response.risk = "low"

\* A policy gate has returned its decision for the intent.
GateDecided(intent) ==
    /\ request.endpoint \in {"policy_check", "evaluate_policy"}
    /\ request.intent = intent
    /\ response # None

\* C31: a policy gate evaluated with the intent "unknown" returns allow=false
\* with risk low, whatever the entities and the balances.
C31_UnknownBlocked ==
    GateDecided("unknown") => ~response.allow /\ response.risk = "low"

\* The text holds "cd" with "maturity" and a transfer keyword.
CdMaturityAndTransfer(t) ==
    /\ \E i \in 1..Len(t) : t[i] = "cd"
    /\ \E i \in 1..Len(t) : t[i] = "maturity"
    /\ \/ \E i \in 1..Len(t) : t[i] \in {"transfer", "send"}
       \/ \E i \in 1..Len(t) - 1 : t[i] = "move" /\ t[i + 1] = "money"

\* The text holds "my insights" or "show insights", the phrases of the first
\* rule of the router.
InsightsPhrase(t) ==
    \E i \in 1..Len(t) - 1 : t[i] \in {"my", "show"} /\ t[i + 1] = "insights"

\* No rule of the router reads a word of the text.
NoRule(t) ==
    /\ t # <<"insights">>
    /\ ~InsightsPhrase(t)
    /\ ~( (\E i \in 1..Len(t) : t[i] = "cd") /\ (\E i \in 1..Len(t) : t[i] = "maturity") )
    /\ \A i \in 1..Len(t) : t[i] \notin {"transfer", "send"}
    /\ \A i \in 1..Len(t) - 1 : ~(t[i] = "move" /\ t[i + 1] = "money")

\* A new session has answered its first text.
Routed == IsOrchestrate(request) /\ response # None

\* C32 (as claimed): a text holding "cd" with "maturity" and a transfer keyword
\* ("transfer", "send", "move money") routes to the CD-maturity intent and
\* leaves a session without pending transfer as it was; a text matching no
\* rule routes to unknown.
C32_RouterPriority ==
    Routed
    => /\ CdMaturityAndTransfer(request.text)
          => /\ response.debug.intent = "assets_cd_maturity"
             /\ Pending(request.session_id) = None
       /\ NoRule(request.text) => response.debug.intent = "unknown"

\* C32 (amended): such a text never routes to the transfer intent and leaves a
\* session without pending transfer as it was; it routes to the CD-maturity
\* intent unless it also holds "my insights" or "show insights", the phrases
\* of the one rule tested before the CD rules, and then it routes to the
\* insights intent.  A text matching no rule routes to unknown.
C32_RouterPriorityAmended ==
    Routed
    => /\ CdMaturityAndTransfer(request.text)
          => /\ response.debug.intent =
                   IF InsightsPhrase(request.text) THEN "bank_insights"
                   ELSE "assets_cd_maturity"
             /\ Pending(request.session_id) = None
       /\ NoRule(request.text) => response.debug.intent = "unknown"

\* C32 witness: "send money cd maturity" was routed to the CD-maturity intent
\* on a new session.
C32_Witness ==
    /\ Routed
    /\ request.text = <<"send", "money", "cd", "maturity">>
    /\ response.debug.intent = "assets_cd_maturity"
    /\ Pending(request.session_id) = None

\* The last request was a confirm_transfer that failed on the funds.
ExecutionFailure ==
    /\ IsActionNamed(request, "confirm_transfer")
    /\ ~response.ok
    /\ response.messages[1] = "Insufficient funds in"

\* C33: with the requests handled one at a time, the amount of an
\* awaiting_confirm pending transfer is at most the balance its source account
\* holds now, and no confirm_transfer fails on the funds.
C33_FundsHoldUntilConfirm ==
    /\ \A s \in DOMAIN DEMO_STATE :
          IsTransfer(Pending(s), "awaiting_confirm")
          => FLe(Pending(s).amount, Balances(s)[Pending(s).from_account])
    /\ ~ExecutionFailure

\* C33 witness: after a confirm has changed the balances, a second transfer is
\* awaiting its confirmation.
C33_Witness ==
    /\ IsOrchestrate(request)
    /\ IsTransfer(Pending(request.session_id), "awaiting_confirm")
    /\ Pending(request.session_id).id = 2
    /\ confirmed # {}
    /\ Balances(request.session_id) # InitialBalances

\* The params name two distinct valid accounts.
ValidDirection(params) ==
    /\ DOMAIN params = {"from_account", "to_account"}
    /\ params.from_account \in {"checking", "savings"}
    /\ params.to_account \in {"checking", "savings"}
    /\ params.from_account # params.to_account

\* C34: a transfer_set_direction with two distinct valid accounts is accepted
\* whatever is pending, leaves the balances alone and replaces the pending
\* transfer by an awaiting_amount one holding the chosen direction and nothing
\* else; when the replaced one was awaiting_confirm, a confirm_transfer sent
\* next with its token fails and changes nothing.
C34_SetDirectionAlways ==
    [][ \A s \in SessionIds :
          ( /\ IsActionNamed(request', "transfer_set_direction")
            /\ request'.session_id = s
            /\ ValidDirection(request'.params) )
          => /\ response'.ok
             /\ DEMO_STATE'[s].pending_action =
                   [type |-> "transfer", stage |-> "awaiting_amount",
                    from_account |-> request'.params.from_account,
                    to_account |-> request'.params.to_account]
             /\ DEMO_STATE'[s].balances =
                   IF s \in DOMAIN DEMO_STATE THEN DEMO_STATE[s].balances
                   ELSE InitialBalances
             /\ ( s \in DOMAIN DEMO_STATE
                  /\ IsTransfer(DEMO_STATE[s].pending_action, "awaiting_confirm") )
                => LET old == DEMO_STATE[s].pending_action
                       r == action(DEMO_STATE',
                                   [endpoint |-> "action", session_id |-> s,
                                    action_name |-> "confirm_transfer",
                                    params |-> [action_id |-> old.id]])
                   IN  /\ NoTransferToConfirm(r.response)
                       /\ r.applied = None
                       /\ r.store = DEMO_STATE'
      ]_vars

\* C34 witness: the confirm button of the only offer made was sent after the
\* direction was chosen anew, and was refused; the session awaits the amount.
C34_Witness ==
    /\ IsActionNamed(request, "confirm_transfer")
    /\ request.params = [action_id |-> 1]
    /\ uuids = 1
    /\ NoTransferToConfirm(response)
    /\ Pending(request.session_id) =
          [type |-> "transfer", stage |-> "awaiting_amount",
           from_account |-> "savings", to_account |-> "checking"]
    /\ Balances(request.session_id) = InitialBalances

\* The amount written first in the text, None when it writes none.
TypedAmount(text) ==
    IF \E i \in 1..Len(text) : text[i] \in DOMAIN AmountLiterals
    THEN LET i == CHOOSE k \in 1..Len(text) :
                     /\ text[k] \in DOMAIN AmountLiterals
                     /\ \A j \in 1..(k - 1) : text[j] \notin DOMAIN AmountLiterals
         IN  AmountLiterals[text[i]]
    ELSE None

\* C35: the pending transfer stored by an accepted transfer_set_direction has
\* neither amount_hint nor amount, and a pending transfer becomes
\* awaiting_confirm only in an Orchestrate call of its session whose text
\* writes an amount, which is the amount stored.
C35_HintIsNoAmount ==
    [][ \A s \in DOMAIN DEMO_STATE' :
          LET post == DEMO_STATE'[s].pending_action
              pre  == IF s \in DOMAIN DEMO_STATE THEN DEMO_STATE[s].pending_action ELSE None
          IN  /\ ( /\ IsActionNamed(request', "transfer_set_direction")
                   /\ request'.session_id = s
                   /\ response'.ok )
                 => /\ post # None
                    /\ "amount_hint" \notin DOMAIN post
                    /\ "amount" \notin DOMAIN post
                    /\ post.stage = "awaiting_amount"
              /\ ( IsTransfer(post, "awaiting_confirm") /\ post # pre )
                 => /\ IsOrchestrate(request')
                    /\ request'.session_id = s
                    /\ TypedAmount(request'.text) # None
                    /\ post.amount = TypedAmount(request'.text)
      ]_vars

\* C35 witness: the direction was chosen on a transfer that carried the hint
\* $25 (the answer mentions it), and the session awaits the amount with no
\* hint and no amount stored.
C35_Witness ==
    /\ IsActionNamed(request, "transfer_set_direction")
    /\ response.ok
    /\ response.messages[4] = "You mentioned"
    /\ response.messages[5] = 2500
    /\ DOMAIN Pending(request.session_id) = {"type", "stage", "from_account", "to_account"}
    /\ Pending(request.session_id).stage = "awaiting_amount"

\* The action names the handler knows.
KnownActions ==
    {"insight_view", "transfer_set_direction", "cancel_transfer", "confirm_transfer",
     "agent_connect", "agent_cancel"}

\* The request is an Action the handler rejects: a transfer_set_direction
\* without two distinct valid accounts, or an unknown action name.
RejectedAction(req) ==
    /\ req.endpoint = "action"
    /\ \/ req.action_name = "transfer_set_direction" /\ ~ValidDirection(req.params)
       \/ req.action_name \notin KnownActions

\* C36: a transfer_set_direction whose accounts are missing, outside
\* {checking, savings} or equal, and an Action with an unknown name, answer
\* ok=false and leave the pending transfer and the balances of the session as
\* they were.
C36_RejectedActions ==
    [][ \A s \in SessionIds :
          ( RejectedAction(request') /\ request'.session_id = s )
          => /\ response'.ok = FALSE
             /\ DEMO_STATE'[s] =
                   IF s \in DOMAIN DEMO_STATE THEN DEMO_STATE[s]
                   ELSE [balances |-> InitialBalances, pending_action |-> None]
      ]_vars

\* C36 witness: a transfer_set_direction naming checking twice was rejected
\* while an offer was awaiting its confirmation, and the offer is still there.
C36_Witness ==
    /\ IsActionNamed(request, "transfer_set_direction")
    /\ request.params = [from_account |-> "checking", to_account |-> "checking"]
    /\ response.ok = FALSE
    /\ IsTransfer(Pending(request.session_id), "awaiting_confirm")

\* evaluate_policy has decided a transfer with a known source account and an
\* amount.
EvaluatedTransfer ==
    /\ request.endpoint = "evaluate_policy"
    /\ request.intent = "bank_transfer"
    /\ request.entities.from_account \in {"checking", "savings"}
    /\ request.entities.amount # None
    /\ response # None

\* C37: for a transfer with a known source account, an amount and balances,
\* evaluate_policy returns the allow/deny decision and the risk level that
\* policy_check returns.
C37_GatesAgree ==
    EvaluatedTransfer
    => LET main == policy_check(request.intent, request.entities, request.state)
       IN  /\ response.allow = main.allow
           /\ response.risk = main.risk

\* C38: under the earlier orchestrator every balance of every session is
\* >= 0 after any sequence of orchestrate, confirm_transfer and
\* cancel_transfer calls.
C38_BackupNoNegative ==
    \A s \in DOMAIN DEMO_STATE :
        \A a \in ACCT : FGe(DEMO_STATE[s].balances[a], FZero)

====
